---- MODULE Spec2Model ----
(***************************************************************************)
(* Generation platform: the Project record life cycle driven by the        *)
(* pipeline orchestrator (backend/agents/orchestrator.py and its legacy    *)
(* copy agents/orchestrator.py), the HTTP handlers that write the Project  *)
(* status (backend/app/main.py), the auto-fix pipeline                     *)
(* (backend/agents/auto_fix.py) and the Prompt->Spec agent with its model  *)
(* fallback chain (backend/agents/prompt_to_spec.py, model_registry.py).   *)
(*                                                                         *)
(* Every db.commit() of a handler is one step; requests interleave between *)
(* commits (sync endpoints run on the thread pool, async ones suspend at   *)
(* their awaits).                                                          *)
(***************************************************************************)
EXTENDS Integers, Sequences, FiniteSets, TLC

\* ---------------------------------------------------------------- bounds
NumProjects == 2
MaxRuns == 2

Projects == 1..NumProjects
Runs == 1..MaxRuns

\* NULL column value / no archive on disk
NULL == 0

VARIABLES
    project,    \* the projects table: Projects -> row
    storage,    \* data/{user}/{project}/project.zip : 0 or the run that wrote it
    run,        \* the requests in flight: Runs -> handler frame
    gen,        \* the Prompt->Spec agent of the run stepped call by call
    walk,       \* get_fallback_chain stepped iteration by iteration
    pipeline,   \* run_pipeline_generator: its review and sandbox loops
    verify,     \* verify_generated_backend stepped operation by operation
    api,        \* the rows' owners and the last response of the HTTP API
    chat,       \* chat_in_thread: one turn stepped commit by commit
    spec_review, \* a spec document, its validation and its review
    verifications, \* the verify_generated_backend calls in flight
    rag,        \* the documents and chunks tables and the uploads in flight
    stream      \* run_pipeline_generator: its events and the run status

vars ==
    <<project, storage, run, gen, walk, pipeline, verify, api, chat,
      spec_review, verifications, rag, stream>>

\* the variables of the Project life cycle and those of app/agent
lifecycleVars == <<project, storage, run, gen>>
agentVars == <<walk, pipeline>>
\* the variables of the stages that are stepped on their own
stageVars ==
    <<verify, api, chat, spec_review, verifications, rag, stream>>
\* what a step of one stage leaves alone
exceptVerify ==
    <<lifecycleVars, agentVars, api, chat, spec_review, verifications, rag,
      stream>>
exceptApi ==
    <<lifecycleVars, agentVars, verify, chat, spec_review, verifications, rag,
      stream>>
exceptChat ==
    <<lifecycleVars, agentVars, verify, api, spec_review, verifications, rag,
      stream>>
exceptReview ==
    <<lifecycleVars, agentVars, verify, api, chat, verifications, rag,
      stream>>
exceptVerifications ==
    <<lifecycleVars, agentVars, verify, api, chat, spec_review, rag, stream>>
exceptRag ==
    <<lifecycleVars, agentVars, verify, api, chat, spec_review, verifications,
      stream>>
exceptStream ==
    <<lifecycleVars, agentVars, verify, api, chat, spec_review, verifications,
      rag>>

\* ----------------------------------------------------------- ProjectStatus
PENDING == "pending"
GENERATING == "generating"
VERIFYING == "verifying"
AWAITING_VERIFICATION == "awaiting_verification"
COMPLETED == "completed"
FAILED == "failed"

ProjectStatus ==
    {PENDING, GENERATING, VERIFYING, AWAITING_VERIFICATION, COMPLETED, FAILED}

NoRow ==
    [exists |-> FALSE, app |-> "backend", status |-> PENDING, prompt |-> NULL,
     spec_json |-> NULL, validation_json |-> "null",
     verification_json |-> "null", zip_path |-> NULL]

\* ----------------------------------------------------------- model registry
\* MODELS: model id -> fallback (the other ModelInfo fields steer nothing)
MODELS ==
    [m \in {"gemini-2.0-flash", "gemini-2.5-flash", "gemini-2.5-pro"} |->
        CASE m = "gemini-2.0-flash" -> "gemini-2.5-flash"
          [] m = "gemini-2.5-flash" -> "gemini-2.5-pro"
          [] m = "gemini-2.5-pro" -> "None"]

DEFAULT_MODEL == "gemini-2.0-flash"

\* the while loop of get_fallback_chain over a registry
RECURSIVE fallback_walk(_, _, _, _)
fallback_walk(registry, current, visited, chain) ==
    IF current = "None" \/ current \in visited \/ current \notin DOMAIN registry
    THEN chain
    ELSE fallback_walk(registry, registry[current], visited \cup {current},
                       Append(chain, current))

get_fallback_chain(model_id) == fallback_walk(MODELS, model_id, {}, <<>>)

\* the frame of generate_spec_from_prompt and of the _try_generate_with_model
\* call it is in: chain position, validation attempt, API attempt, and per
\* model the provider calls made and how its attempt ended; of the last
\* provider call the outcome, the user message and the session it went to
IdleGen ==
    [pc |-> "idle", chain |-> <<>>, ci |-> 0, attempt |-> 0, api_attempt |-> 0,
     last_error |-> "None", last_call |-> "none", slept |-> 0,
     message |-> "none", session |-> 0,
     calls |-> [m \in DOMAIN MODELS |-> 0],
     ended |-> [m \in DOMAIN MODELS |-> "untried"],
     model_used |-> "None"]

IdleRun ==
    [pc |-> "idle", kind |-> "none", proj |-> NULL, valid |-> FALSE,
     skip_verify |-> FALSE, result |-> "none"]

\* the locals of get_fallback_chain before it is called
IdleWalk ==
    [pc |-> "idle", registry |-> MODELS, model_id |-> "None",
     current |-> "None", visited |-> {}, chain |-> <<>>]

\* SandboxTestReport with its defaults; made is FALSE while sandbox_report
\* is None. test_output is kept as what the parsers look for in it: the
\* application files its traceback frames name, in order, and its
\* exception header. A text put together from parts is the sequence of
\* its parts
NoReport ==
    [made |-> FALSE, deployed |-> FALSE, health_check_ok |-> FALSE,
     tests_failed |-> 0, failures |-> {},
     test_output |-> [frames |-> <<>>, header |-> "none"],
     error_file_path |-> "None", traceback_summary |-> <<>>]

\* the locals of run_pipeline_generator before it is called. An optional
\* int is the empty set (None) or the set of its value. Next to the locals:
\* the reviews returned and the deploys made so far, the score and verdict
\* of the last review pass, how the last review loop and the sandbox loop
\* ended (the reviewer_done and sandbox_deploy_done events), and whether
\* the last patch_files of the sandbox loop changed the code
IdlePipeline ==
    [pc |-> "idle", has_tests |-> FALSE, loop |-> 0, attempt |-> 0,
     prev_score |-> {}, score |-> {}, approved |-> FALSE,
     review_end |-> "none", passes |-> 0,
     sandbox_attempt |-> 0, deploys |-> 0, report |-> NoReport,
     patch_requests |-> <<>>, repair |-> "none", sandbox_done |-> "none"]

\* agents/deploy_verify.py, verify_generated_backend, lines 235-239: the
\* locals (results as the passed flags of the EndpointResults, errors),
\* next to them what the operations left on the machine: the scratch
\* directory, the override file, the container group, how the teardown
\* went, the warnings logged, the cleanup operations that raised, the
\* value of a return statement waiting for the finally block (pending),
\* and the outcome seen by the caller (result: the value returned, or the
\* exception that left the function)
NoResult == [kind |-> "None"]
Raised == [kind |-> "exception"]
IdleVerify ==
    [pc |-> "idle", tmpdir |-> "None", project_dir |-> FALSE,
     override |-> FALSE, containers |-> "none", down |-> "not_attempted",
     results |-> <<>>, errors |-> <<>>, pending |-> NoResult,
     result |-> NoResult, log |-> {}, cleanup_failed |-> {}]

\* app/main.py and app/api/routes/sandbox.py: who owns each Project and
\* Document row ("None": no such row), the Project of each Thread row, and
\* the last response: the route, the authenticated caller, the owners at
\* the time of the call of the rows the path named, the status code, the
\* users whose rows the body was built from and the users whose rows the
\* call changed
Users == {"A", "B"}
ApiProjects == {"p1", "p2"}
ApiThreads == {"t1", "t2"}
ApiDocuments == {"d1", "d2"}
NoResponse ==
    [route |-> "None", caller |-> "None", owners |-> {}, status |-> 0,
     data |-> {}, changed |-> {}]
EmptyApi ==
    [project_owner |-> [p \in ApiProjects |-> "None"],
     thread_project |-> [t \in ApiThreads |-> "None"],
     document_owner |-> [d \in ApiDocuments |-> "None"],
     response |-> NoResponse]

\* main.py, chat_in_thread, lines 571-693: the request (the words of
\* request.message), the number of messages the thread held before the
\* call, the Project row of the thread (an artifact is "old" when it was
\* there before the turn and "new" when the turn wrote it), the rows and
\* the messages the turn added, the intent, the run_pipeline call made
\* and the response
NoTurnResponse ==
    [status_code |-> 0, project_id |-> "None", download_url |-> "None"]
IdleChat ==
    [pc |-> "idle", message |-> <<>>, prior |-> 0,
     row |-> [status |-> "pending", prompt |-> "old", spec_json |-> "None",
              zip_path |-> "None"],
     new_rows |-> 0, new_messages |-> 0, intent |-> "None",
     run_pipeline |-> [called |-> FALSE, project_id |-> "None"],
     response |-> NoTurnResponse]

\* app/spec_schema.py and agents/spec_review.py: the document handed to
\* BackendSpec, and the ValidationResult of review_spec once it ran
NoSpec == [project_name |-> "None", auth_enabled |-> FALSE, entities |-> <<>>]
NoValidation == [valid |-> FALSE, errors |-> <<>>, warnings |-> <<>>]
IdleReview == [pc |-> "idle", spec |-> NoSpec, validation |-> NoValidation]

\* deploy_verify.py line 35: the host port of every verification
VERIFY_PORT == 9123

\* processes that can each be inside verify_generated_backend
NumVerifiers == 2
Verifiers == 1..NumVerifiers

\* the locals of verify_generated_backend before it is called, with the
\* host port its compose project asks for and the state of its containers
IdleVerification ==
    [pc |-> "idle", compose_project |-> 0, port |-> 0, containers |-> "none",
     result |-> "none"]

\* the committed rows of the documents table (a row's id is its position;
\* a deleted row keeps its position), the number of document_chunks rows
\* of each, and the store_document calls in flight, each in its own
\* database session
MaxDocuments == 2
UploadFrames == {1, 2}
IdleUpload ==
    [pc |-> "idle", user_id |-> "None", text |-> "None", existing |-> 0,
     returned |-> 0]
EmptyRag ==
    [documents |-> <<>>, chunks |-> <<>>,
     call |-> [f \in UploadFrames |-> IdleUpload]]

\* run_pipeline_generator before its first statement: no event yielded,
\* the generation run as its row was created
IdleStream ==
    [pc |-> "idle", start_stage |-> "None", overrides |-> "None", stage |-> 0,
     events |-> <<>>, run_status |-> "pending"]

InitLater ==
    /\ verifications = [v \in Verifiers |-> IdleVerification]
    /\ rag = EmptyRag
    /\ stream = IdleStream

InitStages ==
    /\ verify = IdleVerify
    /\ api = EmptyApi
    /\ chat = IdleChat
    /\ spec_review = IdleReview
    /\ InitLater

Init ==
    /\ project = [p \in Projects |-> NoRow]
    /\ storage = [p \in Projects |-> NULL]
    /\ run = [r \in Runs |-> IdleRun]
    /\ gen = IdleGen
    /\ walk = IdleWalk
    /\ pipeline = IdlePipeline
    /\ InitStages

\* -------------------------------------------------------------- helpers
\* _update_project: setattr for every keyword, then commit
_update_project(p, fields) ==
    [project EXCEPT ![p] = fields @@ project[p]]

\* db.query(Project).filter(Project.id == project_id).first() on the
\* platform database of backend/app (the legacy app keeps its own table)
Found(p) == project[p].exists /\ project[p].app = "backend"

\* a fresh primary key: the first id no row uses yet
FreeProjects == {p \in Projects : ~project[p].exists}
NewProjectId == CHOOSE p \in FreeProjects : \A q \in FreeProjects : p <= q

\* storage.save_project_zip: the archive of run r replaces project.zip
save_project_zip(p, r) == [storage EXCEPT ![p] = r]

\* storage.get_project_zip_path: None when the file does not exist
get_project_zip_path(p) == storage[p]

Goto(r, pc) == [run EXCEPT ![r].pc = pc]
\* the handler is left: its locals are gone, the response stays
Leave(r, pc, result) ==
    [run EXCEPT ![r] = [IdleRun EXCEPT !.pc = pc, !.kind = run[r].kind,
                                       !.proj = run[r].proj, !.result = result]]
Return(r, result) == Leave(r, "done", result)
Raise(r) == Leave(r, "raised", "raised")

\* a request is served by the first frame not used yet
Accepting(r) == run[r].pc = "idle" /\ \A q \in Runs : q < r => run[q].pc # "idle"

PipelineKinds == {"generate", "refine", "legacy"}

\* ---------------------------------------------------- run_pipeline (backend)
\* lines 90-100: no project_id, a new row is inserted in status PENDING
CreateProject(r) ==
    /\ Accepting(r)
    /\ FreeProjects # {}
    /\ LET p == NewProjectId IN
        /\ project' = [project EXCEPT ![p] =
               [NoRow EXCEPT !.exists = TRUE, !.prompt = r, !.status = PENDING]]
        /\ run' = [run EXCEPT ![r] =
               [IdleRun EXCEPT !.pc = "pending", !.kind = "generate", !.proj = p]]
    /\ UNCHANGED <<storage, gen, agentVars, stageVars>>

ResumeProjectAsGenerating(r, p) ==
    /\ Accepting(r)
    /\ Found(p)
    /\ project[p].zip_path # NULL
    /\ project' = _update_project(p, [prompt |-> r, status |-> GENERATING])
    /\ run' = [run EXCEPT ![r] =
           [IdleRun EXCEPT !.pc = "generating", !.kind = "refine", !.proj = p]]
    /\ UNCHANGED <<storage, gen, agentVars, stageVars>>

\* lines 83-89: project_id given (a REFINE turn of chat_in_thread, which
\* classify_intent only returns for a project that has an archive): the
\* prompt is overwritten and the status reset to PENDING
ResumeProject(r, p) ==
    /\ Accepting(r)
    /\ Found(p)
    /\ project[p].zip_path # NULL
    /\ project' = _update_project(p, [prompt |-> r, status |-> PENDING])
    /\ run' = [run EXCEPT ![r] =
           [IdleRun EXCEPT !.pc = "pending", !.kind = "refine", !.proj = p]]
    /\ UNCHANGED <<storage, gen, agentVars, stageVars>>

\* line 106
SetGenerating(r) ==
    /\ run[r].pc = "pending"
    /\ project' = _update_project(run[r].proj, [status |-> GENERATING])
    /\ run' = Goto(r, "generating")
    /\ UNCHANGED <<storage, gen, agentVars, stageVars>>

\* lines 109-122: generate_spec_from_prompt returned (spec, model_used)
SpecGenerated(r) ==
    /\ project' = _update_project(run[r].proj, [spec_json |-> r])
    /\ run' = Goto(r, "spec")
    /\ UNCHANGED <<storage, gen, agentVars, stageVars>>

\* lines 123-130: generate_spec_from_prompt raised ValueError
SpecGenerationFailed(r) ==
    /\ project' = _update_project(run[r].proj, [status |-> FAILED])
    /\ run' = Return(r, "failure")
    /\ UNCHANGED <<storage, gen, agentVars, stageVars>>

\* the call of generate_spec_from_prompt seen from the orchestrator: it
\* either returns a spec or raises ValueError
GenerateSpec(r) ==
    /\ run[r].pc = "generating"
    /\ \/ SpecGenerated(r)
       \/ SpecGenerationFailed(r)

\* ------------------------------------------------------- prompt_to_spec.py
\* max_retries of generate_spec_from_prompt and _try_generate_with_model
max_retries == 2
\* range(3) of the inner API loop
ApiAttempts == 3

\* what runner.run_async can do: raise, or end with a final response text
ProviderErrors == {"429 Too Many Requests", "RESOURCE_EXHAUSTED", "timeout"}
InvalidResponses == {"empty", "invalid"}

_is_quota_error_429_only(error) == error = "429 Too Many Requests"

\* _is_quota_error: "429" in str(e) or "RESOURCE_EXHAUSTED" in str(e)
_is_quota_error(error) ==
    error \in {"429 Too Many Requests", "RESOURCE_EXHAUSTED"}

\* model ids a request can name (request.model is free text)
StartModels == DOMAIN MODELS \cup {"None", "unknown-model"}

FirstModel(g) == g.chain[1]

\* current_model of the for loop of line 238
CurrentModel(g) == g.chain[g.ci]

\* lines 233-238: the chain is computed and the first model is entered; with
\* an empty chain the loop body never runs and line 260 raises
GenStart(r) ==
    /\ run[r].pc = "generating"
    /\ gen.pc = "idle"
    /\ \E model_id \in StartModels :
        LET start_model == IF model_id = "None" THEN DEFAULT_MODEL ELSE model_id
            chain == get_fallback_chain(start_model)
        IN gen' = IF chain = <<>>
                  THEN [IdleGen EXCEPT !.pc = "raised"]
                  ELSE [IdleGen EXCEPT !.pc = "call", !.chain = chain, !.ci = 1]
    /\ UNCHANGED <<project, storage, run, agentVars, stageVars>>

next_model_skips_one(g) == g.ci + 2

\* the for loop of line 238 moves to the next model of the chain
next_model(g) == g.ci + 1

model_failed_gives_up(g, how) ==
    [g EXCEPT !.ended[CurrentModel(g)] = how, !.pc = "raised"]

\* lines 245-263: _try_generate_with_model raised for the current model;
\* whatever the error (the two continue branches differ in the log line
\* only), the loop goes on while the chain has a next model, and line 260
\* raises ValueError after the last one
model_failed(g, how) ==
    LET h == [g EXCEPT !.ended[CurrentModel(g)] = how] IN
    IF next_model(g) <= Len(g.chain)
    THEN [h EXCEPT !.ci = next_model(g), !.attempt = 0, !.api_attempt = 0,
                   !.last_error = "None"]
    ELSE [h EXCEPT !.pc = "raised"]

user_message_without_error(attempt, last_error) ==
    IF attempt = 0 THEN "USER REQUEST" ELSE "Please try again"

\* lines 131-148: the first attempt sends the request, a later attempt the
\* re-prompt that quotes last_error
user_message(attempt, last_error) ==
    IF attempt = 0 THEN "USER REQUEST" ELSE last_error

\* lines 124-127 and 159-163: a provider call; the session is created once
\* per _try_generate_with_model (one per model of the chain) and every call
\* of that model goes to it
called(g, outcome) ==
    [g EXCEPT !.calls[CurrentModel(g)] = @ + 1, !.last_call = outcome,
              !.message = user_message(g.attempt, g.last_error),
              !.session = g.ci]

backoff_linear(api_attempt) == 2 * (api_attempt + 1)

\* line 175: asyncio.sleep(2 ** api_attempt)
backoff(api_attempt) == 2 ^ api_attempt

\* lines 158-173: the provider raises a quota error, which is re-raised
ProviderQuotaError(r) ==
    /\ run[r].pc = "generating"
    /\ gen.pc = "call"
    /\ \E e \in ProviderErrors :
        /\ _is_quota_error(e)
        /\ gen' = model_failed(called(gen, e), "quota")
    /\ UNCHANGED <<project, storage, run, agentVars, stageVars>>

\* lines 170-178: another error: sleep 2 ** api_attempt, then the next API
\* attempt, or RuntimeError after the third
ProviderTransientError(r) ==
    /\ run[r].pc = "generating"
    /\ gen.pc = "call"
    /\ \E e \in ProviderErrors :
        /\ ~_is_quota_error(e)
        /\ LET g == called(gen, e)
               s == [g EXCEPT !.slept = backoff(g.api_attempt)]
           IN gen' = IF s.api_attempt + 1 < ApiAttempts
                     THEN [s EXCEPT !.api_attempt = @ + 1]
                     ELSE model_failed(s, "api_failed")
    /\ UNCHANGED <<project, storage, run, agentVars, stageVars>>

\* lines 180-183 and 192-204: an empty or invalid response; the next attempt
\* re-prompts with last_error, ValueError after 1 + max_retries attempts
ProviderInvalidResponse(r) ==
    /\ run[r].pc = "generating"
    /\ gen.pc = "call"
    /\ \E text \in InvalidResponses :
        LET g == [called(gen, text) EXCEPT !.last_error = text] IN
        gen' = IF g.attempt + 1 < 1 + max_retries
               THEN [g EXCEPT !.attempt = @ + 1, !.api_attempt = 0]
               ELSE model_failed(g, "invalid")
    /\ UNCHANGED <<project, storage, run, agentVars, stageVars>>

\* lines 192-196 and 244: a valid spec is returned with the current model
ProviderValidResponse(r) ==
    /\ run[r].pc = "generating"
    /\ gen.pc = "call"
    /\ LET g == called(gen, "valid") IN
       gen' = [g EXCEPT !.pc = "returned", !.ended[CurrentModel(g)] = "ok",
                        !.model_used = CurrentModel(g)]
    /\ UNCHANGED <<project, storage, run, agentVars, stageVars>>

\* orchestrator lines 109-122 after the agent returned
GenerateSpecReturns(r) ==
    /\ run[r].pc = "generating"
    /\ gen.pc = "returned"
    /\ SpecGenerated(r)

\* orchestrator lines 123-130 after the agent raised ValueError
GenerateSpecRaises(r) ==
    /\ run[r].pc = "generating"
    /\ gen.pc = "raised"
    /\ SpecGenerationFailed(r)

ReviewSpec_before_commit(r) ==
    /\ run[r].pc = "spec"
    /\ \E valid \in BOOLEAN :
        run' = [run EXCEPT ![r].pc = "reviewed", ![r].valid = valid]
    /\ UNCHANGED <<project, storage, gen, agentVars, stageVars>>

\* lines 134-142: review_spec, validation_json persisted
ReviewSpec(r) ==
    /\ run[r].pc = "spec"
    /\ \E valid \in BOOLEAN :
        /\ project' = _update_project(run[r].proj,
               [validation_json |-> IF valid THEN "valid" ELSE "invalid"])
        /\ run' = [run EXCEPT ![r].pc = "reviewed", ![r].valid = valid]
    /\ UNCHANGED <<storage, gen, agentVars, stageVars>>

ReviewNeverRejects(valid) == FALSE

\* line 144: the review blocks the pipeline
ReviewRejects(valid) == ~valid

\* lines 144-154
ReviewFailed(r) ==
    /\ run[r].pc = "reviewed"
    /\ ReviewRejects(run[r].valid)
    /\ project' = _update_project(run[r].proj, [status |-> FAILED])
    /\ run' = Return(r, "failure")
    /\ UNCHANGED <<storage, gen, agentVars, stageVars>>

\* lines 160-165: generate_project_files, then assemble_project
RenderAndAssemble(r) ==
    /\ run[r].pc = "reviewed"
    /\ ~ReviewRejects(run[r].valid)
    /\ run' = Goto(r, "assembled")
    /\ UNCHANGED <<project, storage, gen, agentVars, stageVars>>

\* line 171
SetAwaitingVerification(r) ==
    /\ run[r].pc = "assembled"
    /\ run[r].kind \in {"generate", "refine"}
    /\ project' = _update_project(run[r].proj, [status |-> AWAITING_VERIFICATION])
    /\ run' = Goto(r, "report")
    /\ UNCHANGED <<storage, gen, agentVars, stageVars>>

\* lines 174-185: generate_report, the archive is assembled again and
\* storage.save_project_zip moves it into place
StoreZip(r) ==
    /\ run[r].pc = "report"
    /\ storage' = save_project_zip(run[r].proj, r)
    /\ run' = Goto(r, "stored")
    /\ UNCHANGED <<project, gen, agentVars, stageVars>>

\* lines 186-199: status COMPLETED and zip_path in one update, then return
FinishPipeline(r) ==
    /\ run[r].pc = "stored"
    /\ project' = _update_project(run[r].proj,
           [status |-> COMPLETED, zip_path |-> run[r].proj])
    /\ run' = Return(r, "success")
    /\ UNCHANGED <<storage, gen, agentVars, stageVars>>

\* a stage called outside the try block raises (the templating collaborator,
\* assemble_project, generate_report, storage.save_project_zip): the
\* exception leaves run_pipeline, nothing is written
StageRaises(r) ==
    /\ run[r].pc \in {"reviewed", "report"}
    /\ run[r].pc = "reviewed" => ~ReviewRejects(run[r].valid)
    /\ run' = Raise(r)
    /\ UNCHANGED <<project, storage, gen, agentVars, stageVars>>

\* ------------------------------------- run_pipeline (agents/orchestrator.py)
\* lines 81-90 of the legacy orchestrator: always a new row
LegacyCreateProject(r) ==
    /\ Accepting(r)
    /\ FreeProjects # {}
    /\ \E skip \in BOOLEAN :
        LET p == NewProjectId IN
        /\ project' = [project EXCEPT ![p] =
               [NoRow EXCEPT !.exists = TRUE, !.app = "legacy", !.prompt = r,
                             !.status = PENDING]]
        /\ run' = [run EXCEPT ![r] =
               [IdleRun EXCEPT !.pc = "pending", !.kind = "legacy", !.proj = p,
                               !.skip_verify = skip]]
    /\ UNCHANGED <<storage, gen, agentVars, stageVars>>

\* lines 162-164: the sandbox verification starts
LegacySetVerifying(r) ==
    /\ run[r].pc = "assembled"
    /\ run[r].kind = "legacy"
    /\ ~run[r].skip_verify
    /\ project' = _update_project(run[r].proj, [status |-> VERIFYING])
    /\ run' = Goto(r, "verifying")
    /\ UNCHANGED <<storage, gen, agentVars, stageVars>>

\* lines 165-189: verify_generated_backend returned, verification_json persisted
LegacyPersistVerification(r) ==
    /\ run[r].pc = "verifying"
    /\ \E outcome \in {"passed", "failed", "skipped"} :
        project' = _update_project(run[r].proj, [verification_json |-> outcome])
    /\ run' = Goto(r, "report")
    /\ UNCHANGED <<storage, gen, agentVars, stageVars>>

\* lines 205-206: skip_verify
LegacySkipVerify(r) ==
    /\ run[r].pc = "assembled"
    /\ run[r].kind = "legacy"
    /\ run[r].skip_verify
    /\ run' = Goto(r, "report")
    /\ UNCHANGED <<project, storage, gen, agentVars, stageVars>>

\* ------------------------------------------------ handlers of app/main.py
new_status_misspelt(passed) == IF passed THEN "complete" ELSE FAILED

\* line 722
new_status(passed) == IF passed THEN COMPLETED ELSE FAILED

\* submit_verification_report, lines 710-727 (404 when the row is not found)
SubmitVerificationReport(p, passed) ==
    /\ Found(p)
    /\ project' = _update_project(p,
           [status |-> new_status(passed),
            verification_json |-> IF passed THEN "passed" ELSE "failed"])
    /\ UNCHANGED <<storage, run, gen, agentVars, stageVars>>

\* generate_backend, lines 183-216: a validated spec is posted; the row is
\* inserted in status COMPLETED (422 and no row when the review rejects it)
DirectGenerate(r) ==
    /\ Accepting(r)
    /\ FreeProjects # {}
    /\ \E valid \in BOOLEAN :
        IF ReviewRejects(valid)
        THEN /\ run' = [run EXCEPT ![r] =
                    [IdleRun EXCEPT !.pc = "done", !.kind = "direct",
                                    !.result = "422"]]
             /\ UNCHANGED project
        ELSE LET p == NewProjectId IN
             /\ project' = [project EXCEPT ![p] =
                    [NoRow EXCEPT !.exists = TRUE, !.status = COMPLETED,
                                  !.spec_json = r, !.validation_json = "valid"]]
             /\ run' = [run EXCEPT ![r] =
                    [IdleRun EXCEPT !.pc = "direct_created", !.kind = "direct",
                                    !.proj = p, !.valid = TRUE]]
    /\ UNCHANGED <<storage, gen, agentVars, stageVars>>

\* generate_backend, lines 218-232: the archive is stored, zip_path committed
DirectStore(r) ==
    /\ run[r].pc = "direct_created"
    /\ storage' = save_project_zip(run[r].proj, r)
    /\ project' = _update_project(run[r].proj, [zip_path |-> run[r].proj])
    /\ run' = Return(r, "success")
    /\ UNCHANGED <<gen, agentVars, stageVars>>

FixAllowedWhenNotCompleted(status) == status # COMPLETED

\* line 756: the only status in which a fix is accepted
FixAllowed(status) == status = FAILED

\* request_auto_fix, lines 745-764: 404, 400 or the status set to GENERATING
RequestAutoFix(r, p) ==
    /\ Accepting(r)
    /\ IF ~Found(p)
       THEN /\ run' = [run EXCEPT ![r] =
                   [IdleRun EXCEPT !.pc = "done", !.kind = "fix", !.proj = p,
                                   !.result = "404"]]
            /\ UNCHANGED project
       ELSE IF ~FixAllowed(project[p].status)
       THEN /\ run' = [run EXCEPT ![r] =
                   [IdleRun EXCEPT !.pc = "done", !.kind = "fix", !.proj = p,
                                   !.result = "400"]]
            /\ UNCHANGED project
       ELSE /\ project' = _update_project(p, [status |-> GENERATING])
            /\ run' = [run EXCEPT ![r] =
                   [IdleRun EXCEPT !.pc = "fix_started", !.kind = "fix",
                                   !.proj = p]]
    /\ UNCHANGED <<storage, gen, agentVars, stageVars>>

\* run_auto_fix_pipeline, auto_fix.py lines 280-343: the spec and the stored
\* archive are loaded, then the LLM is awaited
AutoFixLoad(r) ==
    /\ run[r].pc = "fix_started"
    /\ project[run[r].proj].spec_json # NULL
    /\ get_project_zip_path(run[r].proj) # NULL
    /\ run' = Goto(r, "fix_analyzing")
    /\ UNCHANGED <<project, storage, gen, agentVars, stageVars>>

\* auto_fix.py lines 291-307 and 360-368, 392-397 (no spec, no archive, no
\* fix applied, any exception), then main.py lines 777-783: FAILED, 422
AutoFixFailed(r) ==
    /\ \/ /\ run[r].pc = "fix_started"
          /\ \/ project[run[r].proj].spec_json = NULL
             \/ get_project_zip_path(run[r].proj) = NULL
       \/ run[r].pc = "fix_analyzing"
    /\ project' = _update_project(run[r].proj, [status |-> FAILED])
    /\ run' = Return(r, "failure")
    /\ UNCHANGED <<storage, gen, agentVars, stageVars>>

\* auto_fix.py lines 370-378: fixes applied, the archive is replaced
AutoFixStore(r) ==
    /\ run[r].pc = "fix_analyzing"
    /\ storage' = save_project_zip(run[r].proj, r)
    /\ run' = Goto(r, "fix_stored")
    /\ UNCHANGED <<project, gen, agentVars, stageVars>>

\* auto_fix.py lines 379-390, main.py lines 785-791: zip_path committed, the
\* handler answers "awaiting_verification" and writes no status
AutoFixSucceeded(r) ==
    /\ run[r].pc = "fix_stored"
    /\ project' = _update_project(run[r].proj, [zip_path |-> run[r].proj])
    /\ run' = Return(r, "success")
    /\ UNCHANGED <<storage, gen, agentVars, stageVars>>

Next ==
    \/ \E p \in Projects, passed \in BOOLEAN : SubmitVerificationReport(p, passed)
    \/ \E r \in Runs :
        \/ LegacyCreateProject(r)
        \/ LegacySetVerifying(r)
        \/ LegacyPersistVerification(r)
        \/ LegacySkipVerify(r)
        \/ DirectGenerate(r)
        \/ DirectStore(r)
        \/ \E p \in Projects : RequestAutoFix(r, p)
        \/ AutoFixLoad(r)
        \/ AutoFixFailed(r)
        \/ AutoFixStore(r)
        \/ AutoFixSucceeded(r)
        \/ CreateProject(r)
        \/ \E p \in Projects : ResumeProject(r, p)
        \/ SetGenerating(r)
        \/ GenerateSpec(r)
        \/ ReviewSpec(r)
        \/ ReviewFailed(r)
        \/ RenderAndAssemble(r)
        \/ SetAwaitingVerification(r)
        \/ StoreZip(r)
        \/ FinishPipeline(r)
        \/ StageRaises(r)

Spec == Init /\ [][Next]_vars

\* ------------------------------------------------------------- cancellation
\* the task that serves the request is cancelled (client disconnect, server
\* shutdown) while run_pipeline is suspended in its only await, line 109:
\* asyncio.CancelledError is a BaseException, "except ValueError" (line 123)
\* does not catch it and no finally clause follows, so the handler is left
\* with the row as the last commit wrote it
Cancelled(r) ==
    /\ run[r].pc = "generating"
    /\ run[r].kind \in PipelineKinds
    /\ run' = Leave(r, "raised", "cancelled")
    /\ UNCHANGED <<project, storage, gen, agentVars, stageVars>>

NextCancel ==
    \/ Next
    \/ \E r \in Runs : Cancelled(r)

SpecCancel == Init /\ [][NextCancel]_vars

\* one pipeline run with the Prompt->Spec agent stepped call by call
GenRun == CHOOSE r \in Runs : \A q \in Runs : r <= q

NextGen ==
    \/ CreateProject(GenRun)
    \/ SetGenerating(GenRun)
    \/ GenStart(GenRun)
    \/ ProviderQuotaError(GenRun)
    \/ ProviderTransientError(GenRun)
    \/ ProviderInvalidResponse(GenRun)
    \/ ProviderValidResponse(GenRun)
    \/ GenerateSpecReturns(GenRun)
    \/ GenerateSpecRaises(GenRun)

SpecGen == Init /\ [][NextGen]_vars

\* ------------------------------------------- get_fallback_chain, stepwise
\* the registries the walk is checked on: every fallback link, to a model,
\* to an id the registry does not have, or None, cycles included
Registries == [DOMAIN MODELS -> DOMAIN MODELS \cup {"None", "unknown-model"}]

InitChain ==
    /\ project = [p \in Projects |-> NoRow]
    /\ storage = [p \in Projects |-> NULL]
    /\ run = [r \in Runs |-> IdleRun]
    /\ gen = IdleGen
    /\ pipeline = IdlePipeline
    /\ InitStages
    /\ \E registry \in Registries, model_id \in StartModels :
        walk = [IdleWalk EXCEPT !.pc = "loop", !.registry = registry,
                                !.model_id = model_id, !.current = model_id]

walk_continues_on_visited(current, visited) == current # "None"

\* line 80: while current and current not in visited
walk_continues(current, visited) == current # "None" /\ current \notin visited

\* lines 80-85: one iteration that does not break
ChainStep ==
    /\ walk.pc = "loop"
    /\ walk_continues(walk.current, walk.visited)
    /\ walk.current \in DOMAIN walk.registry
    /\ walk' = [walk EXCEPT !.visited = @ \cup {walk.current},
                            !.chain = Append(@, walk.current),
                            !.current = walk.registry[walk.current]]
    /\ UNCHANGED <<lifecycleVars, pipeline, stageVars>>

\* lines 80-87: the loop condition fails or line 82 breaks; chain is returned
ChainReturn ==
    /\ walk.pc = "loop"
    /\ \/ ~walk_continues(walk.current, walk.visited)
       \/ walk.current \notin DOMAIN walk.registry
    /\ walk' = [walk EXCEPT !.pc = "returned"]
    /\ UNCHANGED <<lifecycleVars, pipeline, stageVars>>

NextChain ==
    \/ ChainStep
    \/ ChainReturn

\* the loop is run to its end: nothing but its own condition stops it
SpecChain == InitChain /\ [][NextChain]_vars /\ WF_vars(NextChain)

\* ------------------------------------- app/agent: run_pipeline_generator
MAX_SANDBOX_RETRIES == 3
MAX_REVIEW_ITERATIONS == 5
REVIEW_TRUST_SCORE_THRESHOLD == 7

\* security_score values a ReviewReport of the LLM is drawn from
Scores == {0, 4, 5, 7, 9}

\* x or 0
OrZero(x) == IF x = {} THEN 0 ELSE CHOOSE n \in x : TRUE

score_floor_off(security_score, previous_score) == security_score

\* reviewer_agent.py lines 78-84: the score of a re-review is raised to
\* previous_score when it is below it
score_floor(security_score, previous_score) ==
    IF previous_score # {} /\ OrZero(security_score) < OrZero(previous_score)
    THEN previous_score
    ELSE security_score

\* lines 99-247: requirements, architecture, implementer, deterministic
\* tests and test generation, which may fail without stopping the run
\* (generated_tests stays None); the first review loop is entered
StartPipeline ==
    /\ pipeline.pc = "idle"
    /\ \E has_tests \in BOOLEAN :
        pipeline' = [IdlePipeline EXCEPT !.pc = "review", !.has_tests = has_tests,
                                        !.loop = 1, !.attempt = 1]
    /\ UNCHANGED <<lifecycleVars, walk, stageVars>>

\* lines 813-817: the run ends with status failed; of the frame the
\* counts of what was done stay
PipelineError(f) ==
    [IdlePipeline EXCEPT !.pc = "error", !.passes = f.passes,
                         !.deploys = f.deploys]

\* an exception of one of those stages (an unsupported start_stage, a
\* failing agent)
StartRaises ==
    /\ pipeline.pc = "idle"
    /\ pipeline' = PipelineError(pipeline)
    /\ UNCHANGED <<lifecycleVars, walk, stageVars>>

\* a review loop ends: break after the reviewer_done event (lines 311-320,
\* 380-386, 672-681, 745-751), the exhausted for statement, or the except
\* block (lines 416-423, 791-804)
AfterReviewLoop(f, how) == [f EXCEPT !.pc = "review_done", !.review_end = how]

\* the for statement of lines 267 and 628 takes the next attempt or ends
NextReviewAttempt(f) ==
    IF f.attempt < MAX_REVIEW_ITERATIONS
    THEN [f EXCEPT !.pc = "review", !.attempt = @ + 1]
    ELSE AfterReviewLoop(f, "exhausted")

review_accepted_on_approval(approved, current_score) == approved

\* lines 301-302 and 662-663
review_accepted(approved, current_score) ==
    approved /\ current_score >= REVIEW_TRUST_SCORE_THRESHOLD

\* lines 268-386 and 629-751: one reviewer pass. The report of the LLM is
\* drawn: its score, its verdict, and whether it carries rewritten files,
\* something to build patch requests from, or neither
ReviewPass ==
    /\ pipeline.pc = "review"
    /\ \E security_score \in {{}} \cup {{n} : n \in Scores},
          approved \in BOOLEAN,
          carries \in {"final_code", "patch_requests", "nothing"} :
        LET review == score_floor(security_score, pipeline.prev_score)
            current_score == OrZero(review)
            f == [pipeline EXCEPT !.passes = @ + 1, !.score = {current_score},
                                  !.approved = approved]
        IN pipeline' =
            IF review_accepted(approved, current_score)
            THEN AfterReviewLoop(f, "accepted")
            ELSE IF carries = "final_code"
            THEN NextReviewAttempt([f EXCEPT !.prev_score = {current_score}])
            ELSE IF carries = "nothing"
            THEN AfterReviewLoop(f, "no_patch")
            ELSE [f EXCEPT !.pc = "review_patch", !.prev_score = {current_score}]
    /\ UNCHANGED <<lifecycleVars, walk, stageVars>>

\* lines 396-415 and 761-781: patch_files returned, the loop goes on
PatchAfterReview ==
    /\ pipeline.pc = "review_patch"
    /\ pipeline' = NextReviewAttempt(pipeline)
    /\ UNCHANGED <<lifecycleVars, walk, stageVars>>

\* lines 416-423 and 791-804: the reviewer, the artifact record or
\* patch_files raised; the loop is left and the run goes on
ReviewRaises ==
    /\ pipeline.pc \in {"review", "review_patch"}
    /\ pipeline' = AfterReviewLoop(pipeline, "error")
    /\ UNCHANGED <<lifecycleVars, walk, stageVars>>

\* the statement after a review loop: the sandbox loop after the first
\* (line 429), the completed event after the second (lines 806-811). The
\* locals of the loop are assigned again before they are read again
LeaveReviewLoop ==
    /\ pipeline.pc = "review_done"
    /\ pipeline' =
        IF pipeline.loop = 1
        THEN [pipeline EXCEPT !.pc = "sandbox", !.sandbox_attempt = 1,
                              !.attempt = 0, !.prev_score = {},
                              !.approved = FALSE, !.review_end = "none"]
        ELSE [pipeline EXCEPT !.pc = "completed"]
    /\ UNCHANGED <<lifecycleVars, walk, stageVars>>

\* ----------------------------------------------------- sandbox_executor.py
AppFiles == {"app/main.py", "app/models.py"}
MaxFrames == 2
\* what a log or a pytest output can hold: up to MaxFrames traceback frames
\* naming application files, and one exception header or none
Frames == UNION {[1..n -> AppFiles] : n \in 0..MaxFrames}
Headers == {"none", "NameError: name 'Field' is not defined", "KeyError: 'id'"}

\* lines 274-279: the kinds deploy_and_test looks for
executor_error_match(header) ==
    IF header \in {"NameError: name 'Field' is not defined", "KeyError: 'id'"}
    THEN <<header>> ELSE <<>>

\* orchestrator.py lines 531-538: the kinds run_pipeline_generator looks
\* for (no IndentationError, KeyError, RuntimeError)
orchestrator_error_match(header) ==
    IF header \in {"NameError: name 'Field' is not defined"}
    THEN header ELSE "None"

\* pytest failure lines: whether the line names a test (test_ and ::) and
\* the first app/....py it mentions
FailureLines ==
    {[test |-> TRUE, file |-> "app/models.py"],
     [test |-> FALSE, file |-> "app/models.py"],
     [test |-> FALSE, file |-> "app/routes.py"]}

\* deploy_and_test, line 240: the container did not start; the same shape
\* is built by the orchestrator (lines 444-451) when the call raises
ReportNotStarted ==
    {[NoReport EXCEPT !.made = TRUE]}

\* lines 250-288: the health check failed; error_file_path is the file of
\* the last frame of the log, traceback_summary its exception header
ReportsUnhealthy ==
    {[NoReport EXCEPT !.made = TRUE, !.deployed = TRUE,
        !.test_output = [frames |-> fr, header |-> hd],
        !.error_file_path = IF fr = <<>> THEN "None" ELSE fr[Len(fr)],
        !.traceback_summary = executor_error_match(hd)]
     : fr \in Frames, hd \in Headers}

\* lines 291-302: pytest ran
ReportsTested ==
    {[NoReport EXCEPT !.made = TRUE, !.deployed = TRUE, !.health_check_ok = TRUE,
        !.tests_failed = failed, !.failures = failures,
        !.test_output = [frames |-> fr, header |-> hd]]
     : failed \in {0, 1}, failures \in SUBSET FailureLines,
       fr \in Frames, hd \in Headers}

\* lines 305-309: no test files
ReportDeployedOnly ==
    {[NoReport EXCEPT !.made = TRUE, !.deployed = TRUE, !.health_check_ok = TRUE]}

deploy_and_test(has_tests) ==
    ReportNotStarted \cup ReportsUnhealthy
        \cup (IF has_tests THEN ReportsTested ELSE ReportDeployedOnly)

\* ------------------------------------------- the sandbox loop, lines 429-609
sandbox_ok_without_tests(report) ==
    report.deployed /\ report.health_check_ok

\* lines 462-466
sandbox_ok(report) ==
    report.deployed /\ report.health_check_ok /\ report.tests_failed = 0

\* lines 521-538: the file of the first frame of test_output
traceback_file_path(report) ==
    IF report.test_output.frames = <<>> THEN "None"
    ELSE report.test_output.frames[1]

traceback_error_msg(report) == orchestrator_error_match(report.test_output.header)

traceback_reason_is_summary(report) ==
    <<"Sandbox runtime error: ">> \o report.traceback_summary

\* line 544
traceback_reason(report) ==
    <<"Sandbox runtime error: ",
      IF traceback_error_msg(report) = "None" THEN "unknown error"
      ELSE traceback_error_msg(report)>>

\* lines 565-573: the application files the failure lines implicate
failing_files(report) ==
    {line.file : line \in {l \in report.failures : ~l.test}}

\* the orders in which a for loop can visit a set
RECURSIVE Orders(_)
Orders(S) ==
    IF S = {} THEN {<<>>}
    ELSE UNION {{<<x>> \o rest : rest \in Orders(S \ {x})} : x \in S}

sandbox_patch_requests_without_catch_all(report, visit) ==
    (IF traceback_file_path(report) # "None"
     THEN <<[path |-> traceback_file_path(report),
             reason |-> traceback_reason(report)]>>
     ELSE <<>>)
    \o [i \in 1..Len(visit) |->
            [path |-> visit[i], reason |-> <<"Sandbox tests failed">>]]

\* lines 518-596: the patch requests built from a failed report, the
\* failing files visited in the order visit
sandbox_patch_requests(report, visit) ==
    LET tb == traceback_file_path(report)
        from_traceback ==
            IF tb # "None"
            THEN <<[path |-> tb, reason |-> traceback_reason(report)]>>
            ELSE <<>>
        from_health ==
            IF ~report.health_check_ok /\ tb # "app/main.py"
            THEN <<[path |-> "app/main.py",
                    reason |-> <<"Sandbox health check failed">>]>>
            ELSE <<>>
        from_failures ==
            [i \in 1..Len(visit) |->
                [path |-> visit[i], reason |-> <<"Sandbox tests failed">>]]
        built == from_traceback \o from_health \o from_failures
    IN IF built = <<>>
       THEN <<[path |-> "app/main.py", reason |-> <<"Sandbox deployment failed">>]>>
       ELSE built

\* lines 430-596: one deploy attempt: the report is stored; a passing
\* report or the last attempt ends the loop with the sandbox_deploy_done
\* event, any other report is turned into patch requests
Deploy ==
    /\ pipeline.pc = "sandbox"
    /\ \E report \in deploy_and_test(pipeline.has_tests) :
        LET f == [pipeline EXCEPT !.deploys = @ + 1, !.report = report,
                                  !.patch_requests = <<>>]
        IN IF sandbox_ok(report)
           THEN pipeline' = [f EXCEPT !.pc = "sandbox_done",
                                      !.sandbox_done = "passed"]
           ELSE IF pipeline.sandbox_attempt >= MAX_SANDBOX_RETRIES
           THEN pipeline' = [f EXCEPT !.pc = "sandbox_done",
                                      !.sandbox_done = "failed"]
           ELSE \E visit \in Orders(failing_files(report)
                                       \ {traceback_file_path(report)}) :
                pipeline' = [f EXCEPT !.pc = "patching",
                    !.patch_requests = sandbox_patch_requests(report, visit)]
    /\ UNCHANGED <<lifecycleVars, walk, stageVars>>

\* lines 604-609 and 429: patch_files returns the code, with or without a
\* change, and the next attempt deploys it (the report and the patch
\* requests are assigned again before they are read again)
PatchFiles ==
    /\ pipeline.pc = "patching"
    /\ \E applied \in {"unchanged", "changed"} :
        pipeline' = [pipeline EXCEPT !.pc = "sandbox", !.repair = applied,
                                    !.sandbox_attempt = @ + 1,
                                    !.report = NoReport,
                                    !.patch_requests = <<>>]
    /\ UNCHANGED <<lifecycleVars, walk, stageVars>>

\* lines 477, 501 and 611-627: break; the second review loop starts with
\* prev_score = None. The report and the patch requests are not read again
LeaveSandboxLoop ==
    /\ pipeline.pc = "sandbox_done"
    /\ pipeline' = [pipeline EXCEPT !.pc = "review", !.loop = 2, !.attempt = 1,
                                    !.prev_score = {}, !.report = NoReport,
                                    !.patch_requests = <<>>, !.repair = "none"]
    /\ UNCHANGED <<lifecycleVars, walk, stageVars>>

\* lines 813-817: the sandbox loop is in no try block of its own;
\* patch_files or the artifact record raising ends the run
SandboxRaises ==
    /\ pipeline.pc \in {"sandbox", "patching"}
    /\ pipeline' = PipelineError(pipeline)
    /\ UNCHANGED <<lifecycleVars, walk, stageVars>>

NextAgent ==
    \/ StartPipeline
    \/ StartRaises
    \/ ReviewPass
    \/ PatchAfterReview
    \/ ReviewRaises
    \/ LeaveReviewLoop
    \/ Deploy
    \/ PatchFiles
    \/ LeaveSandboxLoop
    \/ SandboxRaises

SpecAgent == Init /\ [][NextAgent]_vars

\* ------------------------------------ agents/deploy_verify.py, lines 213-595
\* the most endpoint checks one verification records
MaxChecks == 3

\* lines 56-65: VerificationResult
VerificationResult(skipped, passed, total_tests, failed_tests, errors) ==
    [skipped |-> skipped, passed |-> passed, total_tests |-> total_tests,
     failed_tests |-> failed_tests, errors |-> errors]

\* lines 582-595: the aggregate of the recorded checks
aggregate(results, errors) ==
    LET total == Len(results)
        failed_count == Cardinality({i \in 1..total : ~results[i]})
    IN VerificationResult(FALSE,
            failed_count = 0 /\ total > 0 /\ errors = <<>>,
            total, failed_count, errors)

\* lines 267-270 and 287-290: return VerificationResult(passed=False, errors=errors)
failed_result(errors) == VerificationResult(FALSE, FALSE, 0, 0, errors)

\* lines 553-555: except Exception, then the finally block
verification_raised(v) ==
    [v EXCEPT !.pc = "teardown",
              !.errors = Append(@, "Unexpected error during verification")]

\* lines 228-233: no Docker on the machine, nothing is created
VerifySkipped ==
    /\ verify.pc = "idle"
    /\ verify' = [verify EXCEPT !.pc = "returned",
            !.result = VerificationResult(TRUE, FALSE, 0, 0, <<>>)]
    /\ UNCHANGED exceptVerify

\* line 243: tempfile.mkdtemp
MakeScratchDir ==
    /\ verify.pc = "idle"
    /\ \/ verify' = [verify EXCEPT !.pc = "extract", !.tmpdir = "exists"]
       \/ verify' = verification_raised(verify)
    /\ UNCHANGED exceptVerify

\* lines 245-253: the archive is extracted and project_dir is assigned, or
\* the archive cannot be read and project_dir stays None
ExtractArchive ==
    /\ verify.pc = "extract"
    /\ \/ verify' = [verify EXCEPT !.pc = "override", !.project_dir = TRUE]
       \/ verify' = verification_raised(verify)
    /\ UNCHANGED exceptVerify

\* lines 200-210 and 257: _write_compose_override
WriteComposeOverride ==
    /\ verify.pc = "override"
    /\ \/ verify' = [verify EXCEPT !.pc = "build", !.override = TRUE]
       \/ verify' = verification_raised(verify)
    /\ UNCHANGED exceptVerify

\* lines 260-271: docker compose up -d --build; a failed or timed-out
\* build may have started part of the group
BuildAndStart ==
    /\ verify.pc = "build"
    /\ \/ verify' = [verify EXCEPT !.pc = "health", !.containers = "up"]
       \/ \E started \in {"none", "up"} :
            LET errors == Append(verify.errors, "Docker build failed")
            IN verify' = [verify EXCEPT !.pc = "teardown",
                                        !.containers = started,
                                        !.errors = errors,
                                        !.pending = failed_result(errors)]
       \/ \E started \in {"none", "up"} :
            verify' = verification_raised([verify EXCEPT !.containers = started])
    /\ UNCHANGED exceptVerify

\* lines 158-168 and 274-291: _wait_for_health returns True, returns
\* False at the deadline, or a request raises something that is not a
\* ConnectionError
WaitForHealth ==
    /\ verify.pc = "health"
    /\ \/ verify' = [verify EXCEPT !.pc = "tests"]
       \/ LET errors == Append(verify.errors, "App did not become healthy")
          IN verify' = [verify EXCEPT !.pc = "teardown", !.errors = errors,
                                      !.pending = failed_result(errors)]
       \/ verify' = verification_raised(verify)
    /\ UNCHANGED exceptVerify

\* lines 172-191 and 293-551: one endpoint check is recorded
RecordCheck ==
    /\ verify.pc = "tests"
    /\ Len(verify.results) < MaxChecks
    /\ \E passed \in BOOLEAN :
        verify' = [verify EXCEPT !.results = Append(@, passed)]
    /\ UNCHANGED exceptVerify

\* lines 293-555: /health and /docs are always checked; the checks end,
\* or a statement outside the checks' own try blocks raises
ChecksEnd ==
    /\ verify.pc = "tests"
    /\ \/ /\ Len(verify.results) >= 2
          /\ verify' = [verify EXCEPT !.pc = "teardown"]
       \/ verify' = verification_raised(verify)
    /\ UNCHANGED exceptVerify

\* lines 557-569: docker compose down -v --remove-orphans, when
\* project_dir is set; its failure is logged
TearDown ==
    /\ verify.pc = "teardown"
    /\ IF verify.project_dir
       THEN \/ verify' = [verify EXCEPT !.pc = "rm_override", !.down = "done",
                    !.containers = IF @ = "up" THEN "down" ELSE @]
            \/ verify' = [verify EXCEPT !.pc = "rm_override", !.down = "failed",
                    !.log = @ \cup {"Docker cleanup failed"},
                    !.cleanup_failed = @ \cup {"teardown"}]
       ELSE verify' = [verify EXCEPT !.pc = "rmtree"]
    /\ UNCHANGED exceptVerify

\* lines 571-574: os.remove of the override file, in no try block: when
\* it raises, the exception leaves the finally block and the function
RemoveOverride ==
    /\ verify.pc = "rm_override"
    /\ IF verify.override
       THEN \/ verify' = [verify EXCEPT !.pc = "rmtree", !.override = FALSE]
            \/ verify' = [verify EXCEPT !.pc = "raised", !.result = Raised,
                    !.cleanup_failed = @ \cup {"override"}]
       ELSE verify' = [verify EXCEPT !.pc = "rmtree"]
    /\ UNCHANGED exceptVerify

\* lines 576-581: shutil.rmtree(tmpdir); its failure is logged
RemoveScratchDir ==
    /\ verify.pc = "rmtree"
    /\ IF verify.tmpdir = "exists"
       THEN \/ verify' = [verify EXCEPT !.pc = "finally_done",
                    !.tmpdir = "removed", !.override = FALSE]
            \/ verify' = [verify EXCEPT !.pc = "finally_done",
                    !.log = @ \cup {"Temp cleanup failed"},
                    !.cleanup_failed = @ \cup {"rmtree"}]
       ELSE verify' = [verify EXCEPT !.pc = "finally_done"]
    /\ UNCHANGED exceptVerify

\* the return statement of the try block that waited for the finally
\* block (lines 267, 287), or lines 583-595
ReturnResult ==
    /\ verify.pc = "finally_done"
    /\ verify' = [verify EXCEPT !.pc = "returned",
            !.result = IF verify.pending # NoResult THEN verify.pending
                       ELSE aggregate(verify.results, verify.errors)]
    /\ UNCHANGED exceptVerify

NextVerify ==
    \/ VerifySkipped
    \/ MakeScratchDir
    \/ ExtractArchive
    \/ WriteComposeOverride
    \/ BuildAndStart
    \/ WaitForHealth
    \/ RecordCheck
    \/ ChecksEnd
    \/ TearDown
    \/ RemoveOverride
    \/ RemoveScratchDir
    \/ ReturnResult

SpecVerify == Init /\ [][NextVerify]_vars

\* ----------------------- the HTTP API: app/main.py, app/api/routes/sandbox.py
\* the response of a handler
Response(route, caller, owners, status, data, changed) ==
    [route |-> route, caller |-> caller, owners |-> owners,
     status |-> status, data |-> data, changed |-> changed]

\* the owner of the project of a thread
thread_owner(a, t) ==
    IF a.thread_project[t] = "None" THEN "None"
    ELSE a.project_owner[a.thread_project[t]]

\* the owners of the rows a path names
named_owners(a, projects, threads, documents) ==
    ({a.project_owner[p] : p \in projects}
        \cup {thread_owner(a, t) : t \in threads}
        \cup {a.document_owner[d] : d \in documents}) \ {"None"}

\* db.query(Project).filter(Project.id == project_id,
\*                          Project.user_id == current_user.id).first()
own_project(a, current_user, project_id) ==
    a.project_owner[project_id] = current_user

\* db.query(Thread).filter(Thread.id == thread_id,
\*                         Thread.project_id == project.id).first()
thread_in_project(a, thread_id, project_id) ==
    a.thread_project[thread_id] = project_id

\* main.py lines 167-320: /generate and /generate-from-prompt add a
\* Project row owned by the caller
generate_backend(current_user) ==
    /\ \E p \in ApiProjects :
        /\ api.project_owner[p] = "None"
        /\ api' = [api EXCEPT !.project_owner[p] = current_user,
                !.response = Response("generate", current_user, {}, 200,
                                      {current_user}, {current_user})]
    /\ UNCHANGED exceptApi

\* main.py lines 323-350 and 858-875: /projects and /documents list the
\* caller's rows
list_rows(current_user) ==
    /\ \E route \in {"list_projects", "list_documents"} :
        api' = [api EXCEPT !.response =
                    Response(route, current_user, {}, 200, {current_user}, {})]
    /\ UNCHANGED exceptApi

\* main.py lines 353-428, 465-493 and 696-727: get_project,
\* download_project, list_threads and submit_verification_report look the
\* project up by id and owner, answer 404 without a row and read or
\* update the row otherwise
project_route(current_user, project_id) ==
    /\ \E route \in {"get_project", "download_project", "list_threads",
                     "submit_verification_report", "request_auto_fix"} :
        LET owners == named_owners(api, {project_id}, {}, {})
        IN IF ~own_project(api, current_user, project_id)
           THEN api' = [api EXCEPT !.response =
                    Response(route, current_user, owners, 404, {}, {})]
           ELSE \E status \in
                    CASE route = "download_project" -> {200, 404}
                      [] route = "request_auto_fix" -> {200, 400, 422}
                      [] OTHER -> {200} :
                api' = [api EXCEPT !.response =
                    Response(route, current_user, owners, status,
                        IF status = 200 THEN {current_user} ELSE {},
                        IF route \in {"submit_verification_report",
                                      "request_auto_fix"} /\ status # 400
                        THEN {current_user} ELSE {})]
    /\ UNCHANGED exceptApi

\* main.py lines 431-457: delete_project; the threads go with the row
\* (platform_db.py line 125)
delete_project(current_user, project_id) ==
    /\ LET owners == named_owners(api, {project_id}, {}, {})
       IN IF ~own_project(api, current_user, project_id)
          THEN api' = [api EXCEPT !.response =
                Response("delete_project", current_user, owners, 404, {}, {})]
          ELSE api' = [api EXCEPT !.project_owner[project_id] = "None",
                !.thread_project = [t \in ApiThreads |->
                    IF @[t] = project_id THEN "None" ELSE @[t]],
                !.response = Response("delete_project", current_user, owners,
                                      204, {}, {current_user})]
    /\ UNCHANGED exceptApi

\* main.py lines 496-523: create_thread
create_thread(current_user, project_id) ==
    /\ LET owners == named_owners(api, {project_id}, {}, {})
       IN IF ~own_project(api, current_user, project_id)
          THEN api' = [api EXCEPT !.response =
                Response("create_thread", current_user, owners, 404, {}, {})]
          ELSE \E t \in ApiThreads :
                /\ api.thread_project[t] = "None"
                /\ api' = [api EXCEPT !.thread_project[t] = project_id,
                    !.response = Response("create_thread", current_user,
                        owners, 201, {current_user}, {current_user})]
    /\ UNCHANGED exceptApi

\* main.py lines 526-563 and 566-693: get_thread and chat_in_thread look
\* up the project by id and owner, then the thread by id and project
thread_route(current_user, project_id, thread_id) ==
    /\ \E route \in {"get_thread", "chat_in_thread"} :
        LET owners == named_owners(api, {project_id}, {thread_id}, {})
        IN IF \/ ~own_project(api, current_user, project_id)
              \/ ~thread_in_project(api, thread_id, project_id)
           THEN api' = [api EXCEPT !.response =
                    Response(route, current_user, owners, 404, {}, {})]
           ELSE \E status \in IF route = "get_thread" THEN {200}
                              ELSE {200, 422, 500} :
                api' = [api EXCEPT !.response =
                    Response(route, current_user, owners, status,
                        IF status = 200 THEN {current_user} ELSE {},
                        IF route = "chat_in_thread" THEN {current_user}
                        ELSE {})]
    /\ UNCHANGED exceptApi

\* main.py lines 804-855 and rag.py lines 146-209: upload_document
upload_document(current_user) ==
    /\ \E d \in ApiDocuments :
        /\ api.document_owner[d] = "None"
        /\ api' = [api EXCEPT !.document_owner[d] = current_user,
                !.response = Response("upload_document", current_user, {},
                                      201, {current_user}, {current_user})]
    /\ UNCHANGED exceptApi

\* main.py lines 878-894 and rag.py lines 212-224: remove_document
remove_document(current_user, document_id) ==
    /\ LET owners == named_owners(api, {}, {}, {document_id})
       IN IF api.document_owner[document_id] # current_user
          THEN api' = [api EXCEPT !.response =
                Response("remove_document", current_user, owners, 404, {}, {})]
          ELSE api' = [api EXCEPT !.document_owner[document_id] = "None",
                !.response = Response("remove_document", current_user,
                                      owners, 204, {}, {current_user})]
    /\ UNCHANGED exceptApi

\* routes/sandbox.py lines 240-352: deploy_to_sandbox gets the project by
\* id alone and compares its owner afterwards
deploy_to_sandbox(current_user, project_id) ==
    /\ LET owners == named_owners(api, {project_id}, {}, {})
       IN IF api.project_owner[project_id] = "None"
          THEN api' = [api EXCEPT !.response =
                Response("deploy_to_sandbox", current_user, owners, 404, {}, {})]
          ELSE IF api.project_owner[project_id] # current_user
          THEN api' = [api EXCEPT !.response =
                Response("deploy_to_sandbox", current_user, owners, 403, {}, {})]
          ELSE \E status \in {200, 400, 500} :
                api' = [api EXCEPT !.response =
                    Response("deploy_to_sandbox", current_user, owners, status,
                        IF status = 200 THEN {current_user} ELSE {}, {})]
    /\ UNCHANGED exceptApi

\* routes/sandbox.py lines 360-476: deploy_to_sandbox_by_thread takes no
\* current user; it finds the project of the thread and deploys its code
deploy_to_sandbox_by_thread(caller, thread_id) ==
    /\ LET owners == named_owners(api, {}, {thread_id}, {})
       IN IF thread_owner(api, thread_id) = "None"
          THEN api' = [api EXCEPT !.response =
                Response("deploy_to_sandbox_by_thread", caller, owners, 404,
                         {}, {})]
          ELSE \E status \in {200, 400, 500} :
                api' = [api EXCEPT !.response =
                    Response("deploy_to_sandbox_by_thread", caller, owners,
                        status,
                        IF status = 200 THEN {thread_owner(api, thread_id)}
                        ELSE {}, {})]
    /\ UNCHANGED exceptApi

NextApi ==
    \/ \E u \in Users : generate_backend(u)
    \/ \E u \in Users : list_rows(u)
    \/ \E u \in Users, p \in ApiProjects : project_route(u, p)
    \/ \E u \in Users, p \in ApiProjects : delete_project(u, p)
    \/ \E u \in Users, p \in ApiProjects : create_thread(u, p)
    \/ \E u \in Users, p \in ApiProjects, t \in ApiThreads : thread_route(u, p, t)
    \/ \E u \in Users : upload_document(u)
    \/ \E u \in Users, d \in ApiDocuments : remove_document(u, d)
    \/ \E u \in Users, p \in ApiProjects : deploy_to_sandbox(u, p)
    \/ \E u \in Users, t \in ApiThreads : deploy_to_sandbox_by_thread(u, t)

SpecApi == Init /\ [][NextApi]_vars

\* ----------------------------------------- agents/intent_router.py, lines 20-101
RETRIEVE == "retrieve"
GENERATE == "generate"
REFINE == "refine"

\* lines 30-38, 40-46 and 48-56: the alternatives of the three patterns, each
\* a run of words (\s+ between them, \b around them)
_RETRIEVE_PATTERNS ==
    {<<"where", "is">>, <<"give", "me">>, <<"send", "me">>, <<"show", "me">>,
     <<"get", "me">>, <<"download">>, <<"my", "project">>, <<"my", "api">>,
     <<"my", "app">>, <<"my", "backend">>, <<"i", "already">>,
     <<"you", "built">>, <<"you", "made">>, <<"we", "built">>,
     <<"we", "made">>, <<"link", "to">>, <<"zip">>, <<"artifact">>,
     <<"redownload">>, <<"re-download">>, <<"resend">>}

_GENERATE_PATTERNS ==
    {<<"build">>, <<"create">>, <<"generate">>, <<"make">>, <<"scaffold">>,
     <<"set", "up">>, <<"implement">>, <<"write">>, <<"new", "api">>,
     <<"new", "backend">>, <<"new", "project">>, <<"new", "app">>,
     <<"new", "service">>}

_REFINE_PATTERNS ==
    {<<"add">>, <<"remove">>, <<"update">>, <<"change">>, <<"fix">>,
     <<"modify">>, <<"extend">>, <<"rename">>, <<"also">>, <<"additionally">>,
     <<"now", "also">>, <<"i", "also", "want">>, <<"and", "add">>,
     <<"and", "remove">>, <<"and", "include">>, <<"include">>, <<"exclude">>,
     <<"make", "it">>, <<"turn", "it">>}

\* the words a message is made of, and the longest message
Words == {"download", "my", "project", "add", "make", "it", "BUILD", "users"}
MaxWords == 2
Messages == UNION {[1..n -> Words] : n \in 0..MaxWords}

\* str.lower, word by word
lower(words) ==
    [i \in 1..Len(words) |-> IF words[i] = "BUILD" THEN "build" ELSE words[i]]

\* pattern.search(text): some alternative occurs at some position
search(pattern, words) ==
    \E alternative \in pattern :
        \E i \in 1..(Len(words) - Len(alternative) + 1) :
            \A j \in 1..Len(alternative) : words[i + j - 1] = alternative[j]

classify_intent_generate_first(prompt, has_existing_project, message_history) ==
    LET prompt_lower == lower(prompt)
        has_history == message_history > 0
    IN IF ~has_existing_project THEN GENERATE
       ELSE IF search(_GENERATE_PATTERNS, prompt_lower) THEN GENERATE
       ELSE IF search(_RETRIEVE_PATTERNS, prompt_lower) THEN RETRIEVE
       ELSE IF has_history THEN REFINE
       ELSE GENERATE

\* lines 59-101; message_history is the number of prior messages
classify_intent(prompt, has_existing_project, message_history) ==
    LET prompt_lower == lower(prompt)
        has_history == message_history > 0
    IN IF ~has_existing_project THEN GENERATE
       ELSE IF search(_RETRIEVE_PATTERNS, prompt_lower) THEN RETRIEVE
       ELSE IF has_history /\ search(_REFINE_PATTERNS, prompt_lower) THEN REFINE
       ELSE IF search(_GENERATE_PATTERNS, prompt_lower) THEN GENERATE
       ELSE IF has_history THEN REFINE
       ELSE GENERATE

\* --------------------------------------- main.py, chat_in_thread, lines 566-693
\* the most messages a thread holds before the turn
MaxHistory == 2

\* the rows a thread's Project can be when a turn arrives: run_pipeline
\* writes spec_json before zip_path, and a row is left failed, generating
\* or completed
ThreadProjects ==
    {r \in [status : {FAILED, GENERATING, COMPLETED}, prompt : {"old"},
            spec_json : {"None", "old"}, zip_path : {"None", "old"}] :
        r.zip_path = "old" => r.spec_json = "old"}

InitChat ==
    /\ project = [p \in Projects |-> NoRow]
    /\ storage = [p \in Projects |-> NULL]
    /\ run = [r \in Runs |-> IdleRun]
    /\ gen = IdleGen
    /\ walk = IdleWalk
    /\ pipeline = IdlePipeline
    /\ verify = IdleVerify
    /\ api = EmptyApi
    /\ spec_review = IdleReview
    /\ InitLater
    /\ \E message \in Messages, prior \in 0..MaxHistory, row \in ThreadProjects :
        chat = [IdleChat EXCEPT !.pc = "received", !.message = message,
                                !.prior = prior, !.row = row]

\* lines 594-607: the user message is committed; prior_history is the
\* history without it
PersistUserMessage ==
    /\ chat.pc = "received"
    /\ chat' = [chat EXCEPT !.pc = "classify", !.new_messages = @ + 1]
    /\ UNCHANGED exceptChat

\* lines 609-615
ClassifyTurn ==
    /\ chat.pc = "classify"
    /\ LET has_existing_artifact == chat.row.zip_path # "None"
           intent == classify_intent(chat.message, has_existing_artifact,
                                     chat.prior)
       IN chat' = [chat EXCEPT !.intent = intent,
                    !.pc = IF intent = RETRIEVE THEN "retrieve" ELSE "pipeline"]
    /\ UNCHANGED exceptChat

retrieve_reply_after_pipeline(c) ==
    [c EXCEPT !.pc = "done", !.new_messages = @ + 1,
        !.run_pipeline = [called |-> TRUE, project_id |-> "project"],
        !.row = [@ EXCEPT !.prompt = "new", !.status = PENDING],
        !.response = [status_code |-> 200, project_id |-> "project",
            download_url |-> IF c.row.zip_path # "None" THEN "project"
                             ELSE "None"]]

\* lines 618-634: the agent message is committed and the response names
\* the archive the row has
retrieve_reply(c) ==
    [c EXCEPT !.pc = "done", !.new_messages = @ + 1,
        !.response = [status_code |-> 200, project_id |-> "project",
            download_url |-> IF c.row.zip_path # "None" THEN "project"
                             ELSE "None"]]

ReplyRetrieve ==
    /\ chat.pc = "retrieve"
    /\ chat' = retrieve_reply(chat)
    /\ UNCHANGED exceptChat

\* lines 639-649 and agents/orchestrator.py lines 83-106: run_pipeline is
\* called with the id of the thread's Project on a REFINE turn (the row is
\* resumed: prompt overwritten, status PENDING) and with None otherwise (a
\* new row is inserted)
CallRunPipeline ==
    /\ chat.pc = "pipeline"
    /\ IF chat.intent = REFINE
       THEN chat' = [chat EXCEPT !.pc = "resumed",
                !.run_pipeline = [called |-> TRUE, project_id |-> "project"],
                !.row = [@ EXCEPT !.prompt = "new", !.status = PENDING]]
       ELSE chat' = [chat EXCEPT !.pc = "running", !.new_rows = @ + 1,
                !.run_pipeline = [called |-> TRUE, project_id |-> "None"]]
    /\ UNCHANGED exceptChat

\* agents/orchestrator.py line 106
ResumedGenerating ==
    /\ chat.pc = "resumed"
    /\ chat' = [chat EXCEPT !.pc = "running", !.row.status = GENERATING]
    /\ UNCHANGED exceptChat

\* how run_pipeline leaves the row it works on (agents/orchestrator.py):
\* lines 123-130 the spec generation failed, lines 144-154 the review
\* rejected the spec, lines 186-200 success, and an exception of a later
\* stage with spec_json written and the status as it was
pipeline_outcomes(row) ==
    {[result |-> "failure", row |-> [row EXCEPT !.status = FAILED]],
     [result |-> "failure",
      row |-> [row EXCEPT !.status = FAILED, !.spec_json = "new"]],
     [result |-> "success",
      row |-> [row EXCEPT !.status = COMPLETED, !.spec_json = "new",
                          !.zip_path = "new"]],
     [result |-> "raised", row |-> [row EXCEPT !.spec_json = "new"]]}

\* lines 651-693: the reply to the result of run_pipeline; the response
\* names the Project of the thread
PipelineReturns ==
    /\ chat.pc = "running"
    /\ \E outcome \in pipeline_outcomes(chat.row) :
        LET row == IF chat.run_pipeline.project_id = "project"
                   THEN outcome.row ELSE chat.row
        IN chat' = [chat EXCEPT !.pc = "done", !.row = row,
                !.new_messages = @ + 1,
                !.response =
                    CASE outcome.result = "success" ->
                            [status_code |-> 200, project_id |-> "project",
                             download_url |-> "project"]
                      [] outcome.result = "failure" ->
                            [status_code |-> 422, project_id |-> "project",
                             download_url |-> "None"]
                      [] OTHER ->
                            [status_code |-> 500, project_id |-> "None",
                             download_url |-> "None"]]
    /\ UNCHANGED exceptChat

NextChat ==
    \/ PersistUserMessage
    \/ ClassifyTurn
    \/ ReplyRetrieve
    \/ CallRunPipeline
    \/ ResumedGenerating
    \/ PipelineReturns

SpecChat == InitChat /\ [][NextChat]_vars

\* --------------------------- app/spec_schema.py and agents/spec_review.py
\* the most fields of the entity that is drawn in full
MaxFields == 2

\* FieldSpec: name, primary_key, nullable (type and unique steer nothing)
FieldNames == {"id", "type", "title"}
FieldSpecs == [name : FieldNames, primary_key : BOOLEAN, nullable : BOOLEAN]

KeyField == [name |-> "id", primary_key |-> TRUE, nullable |-> FALSE]

\* EntitySpec: the first entity of a document is any entity named Item,
\* a second one is one of four
FirstEntities ==
    {[name |-> "Item", table_name |-> table_name, fields |-> fields] :
        table_name \in {"items", "user_accounts"},
        fields \in UNION {[1..n -> FieldSpecs] : n \in 1..MaxFields}}

MoreEntities ==
    {[name |-> "Account", table_name |-> "accounts", fields |-> <<KeyField>>],
     [name |-> "Tag", table_name |-> "tags",
      fields |-> <<[KeyField EXCEPT !.nullable = TRUE]>>],
     [name |-> "Login", table_name |-> "user_accounts", fields |-> <<KeyField>>],
     [name |-> "Item", table_name |-> "others", fields |-> <<KeyField>>]}

\* the documents handed to BackendSpec
SpecDocuments ==
    {[project_name |-> project_name, auth_enabled |-> auth_enabled,
      entities |-> entities] :
        project_name \in {"shop", "app"}, auth_enabled \in BOOLEAN,
        entities \in {<<first>> : first \in FirstEntities}
            \cup {<<first, second>> :
                    first \in FirstEntities, second \in MoreEntities}}

InitReview ==
    /\ project = [p \in Projects |-> NoRow]
    /\ storage = [p \in Projects |-> NULL]
    /\ run = [r \in Runs |-> IdleRun]
    /\ gen = IdleGen
    /\ walk = IdleWalk
    /\ pipeline = IdlePipeline
    /\ verify = IdleVerify
    /\ api = EmptyApi
    /\ chat = IdleChat
    /\ InitLater
    /\ \E spec \in SpecDocuments :
        spec_review = [IdleReview EXCEPT !.pc = "received", !.spec = spec]

\* pk_fields = [f for f in entity.fields if f.primary_key]
pk_fields(entity) == SelectSeq(entity.fields, LAMBDA f : f.primary_key)

\* spec_schema.py lines 87-100: EntitySpec.validate_has_primary_key
validate_has_primary_key(entity) == Len(pk_fields(entity)) = 1

\* spec_schema.py lines 148-168: no two entities share a name (compared
\* in lower case) or a table
validate_no_duplicates(spec) ==
    \A i, j \in 1..Len(spec.entities) :
        i # j => /\ lower(<<spec.entities[i].name>>)
                        # lower(<<spec.entities[j].name>>)
                 /\ spec.entities[i].table_name # spec.entities[j].table_name

\* BackendSpec(**data): the field, entity and model validators
structurally_valid(spec) ==
    /\ Len(spec.entities) >= 1
    /\ \A i \in 1..Len(spec.entities) :
        /\ Len(spec.entities[i].fields) >= 1
        /\ validate_has_primary_key(spec.entities[i])
    /\ validate_no_duplicates(spec)

\* the lists a for loop appends to, joined in the order of the loop
RECURSIVE Joined(_, _)
Joined(lists, n) == IF n = 0 THEN <<>> ELSE Joined(lists, n - 1) \o lists[n]

\* spec_review.py lines 57-64
duplicate_field_errors(entity) ==
    Joined([i \in 1..Len(entity.fields) |->
                IF \E j \in 1..(i - 1) :
                        entity.fields[j].name = entity.fields[i].name
                THEN <<"duplicate field name">> ELSE <<>>],
           Len(entity.fields))

\* spec_review.py lines 52 and 66-72
reserved_names == {"id", "type", "class", "import", "from", "return", "pass"}
reserved_word_warnings(entity) ==
    Joined([i \in 1..Len(entity.fields) |->
                IF /\ entity.fields[i].name \in reserved_names
                   /\ entity.fields[i].name # "id"
                THEN <<"reserved word">> ELSE <<>>],
           Len(entity.fields))

nullable_pk_errors_skipped(entity) == <<>>

\* spec_review.py lines 74-80
nullable_pk_errors(entity) ==
    Joined([i \in 1..Len(pk_fields(entity)) |->
                IF pk_fields(entity)[i].nullable
                THEN <<"nullable primary key">> ELSE <<>>],
           Len(pk_fields(entity)))

auth_table_errors_without_auth(spec) ==
    Joined([i \in 1..Len(spec.entities) |->
                IF spec.entities[i].table_name = "user_accounts"
                THEN <<"reserved table name">> ELSE <<>>],
           Len(spec.entities))

\* spec_review.py lines 82-90
auth_table_errors(spec) ==
    IF spec.auth_enabled
    THEN Joined([i \in 1..Len(spec.entities) |->
                    IF spec.entities[i].table_name = "user_accounts"
                    THEN <<"reserved table name">> ELSE <<>>],
                Len(spec.entities))
    ELSE <<>>

\* spec_review.py lines 91-96
project_name_warnings(spec) ==
    IF spec.project_name \in {"app", "test", "tests", "src", "lib"}
    THEN <<"generic project name">> ELSE <<>>

\* spec_review.py lines 26-102
review_spec(spec) ==
    LET errors ==
            Joined([i \in 1..Len(spec.entities) |->
                        duplicate_field_errors(spec.entities[i])
                            \o nullable_pk_errors(spec.entities[i])],
                   Len(spec.entities))
                \o auth_table_errors(spec)
        warnings ==
            Joined([i \in 1..Len(spec.entities) |->
                        reserved_word_warnings(spec.entities[i])],
                   Len(spec.entities))
                \o project_name_warnings(spec)
    IN [valid |-> errors = <<>>, errors |-> errors, warnings |-> warnings]

\* BackendSpec(**data) returns the model or raises ValidationError
ValidateDocument ==
    /\ spec_review.pc = "received"
    /\ spec_review' = [spec_review EXCEPT !.pc =
            IF structurally_valid(spec_review.spec) THEN "validated" ELSE "rejected"]
    /\ UNCHANGED exceptReview

\* agents/orchestrator.py line 134: validation = review_spec(spec)
ReviewDocument ==
    /\ spec_review.pc = "validated"
    /\ spec_review' = [spec_review EXCEPT !.pc = "reviewed",
                                !.validation = review_spec(spec_review.spec)]
    /\ UNCHANGED exceptReview

NextReview ==
    \/ ValidateDocument
    \/ ReviewDocument

SpecReview == InitReview /\ [][NextReview]_vars

\* ------------------------------- deploy_verify.py: concurrent verifications
\* verify_generated_backend has no lock and takes no port argument: every
\* call, of whichever process, goes through these steps on its own

\* lines 239-253: the compose project name comes from uuid4 (unique per
\* call), the archive is extracted
StartVerification(v) ==
    /\ verifications[v].pc = "idle"
    /\ verifications' = [verifications EXCEPT ![v] =
           [IdleVerification EXCEPT !.pc = "extracted", !.compose_project = v]]
    /\ UNCHANGED exceptVerifications

\* lines 200-210: the host port written into docker-compose.override.yml
override_port(v) == VERIFY_PORT

\* lines 255-257
_write_compose_override(v) ==
    /\ verifications[v].pc = "extracted"
    /\ verifications' = [verifications EXCEPT ![v].pc = "override",
                                              ![v].port = override_port(v)]
    /\ UNCHANGED exceptVerifications

\* the host port asked for is published by the containers of another
\* compose project
HostPortTaken(v) ==
    \E w \in Verifiers \ {v} :
        /\ verifications[w].containers = "up"
        /\ verifications[w].port = verifications[v].port

\* lines 259-272: docker compose up -d --build. The daemon refuses to
\* publish a host port that is taken ("port is already allocated") and the
\* command ends with a non-zero return code; the build can fail on its own
\* as well
ComposeUp(v) ==
    /\ verifications[v].pc = "override"
    /\ \E returncode \in {0, 1} :
        /\ HostPortTaken(v) => returncode # 0
        /\ verifications' = [verifications EXCEPT ![v] =
               IF returncode # 0
               THEN [@ EXCEPT !.pc = "teardown", !.containers = "created",
                              !.result = "Docker build failed"]
               ELSE [@ EXCEPT !.pc = "up", !.containers = "up"]]
    /\ UNCHANGED exceptVerifications

\* lines 274-555: the health wait and the smoke tests against BASE_URL
SmokeTests(v) ==
    /\ verifications[v].pc = "up"
    /\ \E result \in {"App did not become healthy", "failed", "passed"} :
        verifications' = [verifications EXCEPT ![v].pc = "teardown",
                                               ![v].result = result]
    /\ UNCHANGED exceptVerifications

\* lines 557-569: docker compose down -v --remove-orphans of the own
\* compose project
ComposeDown(v) ==
    /\ verifications[v].pc = "teardown"
    /\ verifications' = [verifications EXCEPT ![v].pc = "returned",
                                              ![v].containers = "none"]
    /\ UNCHANGED exceptVerifications

\* lines 583-595: the result is returned; the process can verify again
VerificationReturns(v) ==
    /\ verifications[v].pc = "returned"
    /\ verifications' = [verifications EXCEPT ![v] = IdleVerification]
    /\ UNCHANGED exceptVerifications

NextVerifications ==
    \E v \in Verifiers :
        \/ StartVerification(v)
        \/ _write_compose_override(v)
        \/ ComposeUp(v)
        \/ SmokeTests(v)
        \/ ComposeDown(v)
        \/ VerificationReturns(v)

SpecVerifications == Init /\ [][NextVerifications]_vars

\* ------------------------------------------------- rag.py: store_document
\* the extracted texts a user uploads; upload_document (main.py 821-825)
\* refuses a text that is blank
Texts == {"charter", "notes"}

\* lines 141-143: the SHA-256 digest of the text; two texts of the model
\* have different digests
content_hash(text) == <<"sha256", text>>

\* lines 49-97: the chunks of a non-blank text, counted
chunk_text(text) == IF text = "charter" THEN 1 ELSE 2

DocumentIds == 1..Len(rag.documents)

existing_documents_unchecked(user_id, doc_hash) == {}

\* lines 166-169: the committed rows of the user with this hash
existing_documents(user_id, doc_hash) ==
    {d \in DocumentIds :
        /\ rag.documents[d].live
        /\ rag.documents[d].user_id = user_id
        /\ rag.documents[d].content_hash = doc_hash}

\* lines 165-181: the duplicate check; .first() has no ORDER BY, so with
\* several matching rows any of them is returned. Without a match the new
\* row is added and flushed, which no other session sees before the commit
store_document(f, user_id, text) ==
    /\ rag.call[f].pc = "idle"
    /\ LET existing == existing_documents(user_id, content_hash(text))
           frame == [IdleUpload EXCEPT !.user_id = user_id, !.text = text]
       IN IF existing # {}
          THEN \E d \in existing :
                rag' = [rag EXCEPT !.call[f] =
                    [frame EXCEPT !.pc = "returned", !.existing = d,
                                  !.returned = d]]
          ELSE rag' = [rag EXCEPT !.call[f] = [frame EXCEPT !.pc = "flushed"]]
    /\ UNCHANGED exceptRag

\* lines 183-208: the text is chunked and embedded, the chunks are added
\* and everything is committed
CommitDocument(f) ==
    /\ rag.call[f].pc = "flushed"
    /\ Len(rag.documents) < MaxDocuments
    /\ LET c == rag.call[f]
           row == [user_id |-> c.user_id,
                   content_hash |-> content_hash(c.text), live |-> TRUE]
       IN rag' = [rag EXCEPT
               !.documents = Append(@, row),
               !.chunks = Append(@, chunk_text(c.text)),
               !.call[f] = [c EXCEPT !.pc = "returned",
                                     !.returned = Len(rag.documents) + 1]]
    /\ UNCHANGED exceptRag

\* line 192: embed_texts raises (the embedding API fails); the session is
\* closed without a commit and the flushed row is gone (main.py 850-854
\* answers 500)
EmbedRaises(f) ==
    /\ rag.call[f].pc = "flushed"
    /\ rag' = [rag EXCEPT !.call[f].pc = "raised"]
    /\ UNCHANGED exceptRag

\* the handler is left
UploadReturns(f) ==
    /\ rag.call[f].pc \in {"returned", "raised"}
    /\ rag' = [rag EXCEPT !.call[f] = IdleUpload]
    /\ UNCHANGED exceptRag

\* lines 212-225: delete_document removes the user's row and, by cascade,
\* its chunks
delete_document(user_id, d) ==
    /\ d \in DocumentIds
    /\ rag.documents[d].live
    /\ rag.documents[d].user_id = user_id
    /\ rag' = [rag EXCEPT !.documents[d].live = FALSE, !.chunks[d] = 0]
    /\ UNCHANGED exceptRag

NextRag ==
    \/ \E f \in UploadFrames, u \in Users, text \in Texts :
        store_document(f, u, text)
    \/ \E f \in UploadFrames :
        \/ CommitDocument(f)
        \/ EmbedRaises(f)
        \/ UploadReturns(f)
    \/ \E u \in Users, d \in 1..MaxDocuments : delete_document(u, d)

SpecRag == Init /\ [][NextRag]_vars

\* ------------------- app/agent/orchestrator.py: the events and the run status
\* the stages in the order of the function body, with the event each one
\* yields when it begins and the event that follows it, and whether an
\* exception of the stage is caught by a try block of its own (lines
\* 221-247, 264-423, 626-804)
Stages ==
    <<[begins |-> "requirements", done |-> "requirements_done", guarded |-> FALSE],
      [begins |-> "architecture", done |-> "architecture_done", guarded |-> FALSE],
      [begins |-> "implementer", done |-> "implementer_done", guarded |-> FALSE],
      [begins |-> "testing", done |-> "testing_done", guarded |-> FALSE],
      [begins |-> "test_generation", done |-> "test_generation_done", guarded |-> TRUE],
      [begins |-> "reviewer", done |-> "reviewer_done", guarded |-> TRUE],
      [begins |-> "sandbox_deploy", done |-> "sandbox_deploy_done", guarded |-> FALSE],
      [begins |-> "reviewer", done |-> "reviewer_done", guarded |-> TRUE]>>

yield(f, status) == [f EXCEPT !.events = Append(@, status)]

\* lines 29-33: update_generation_run_status is called; when it raises the
\* exception is logged and the status stays what it was
_update_run_status_safely(current, status, raises) ==
    IF raises THEN current ELSE status

\* line 99
EmitStarting ==
    /\ stream.pc = "idle"
    /\ \E start_stage \in {"requirements", "implementer", "architecture"},
          overrides \in {"none", "architecture", "both"} :
        stream' = yield([IdleStream EXCEPT !.pc = "started",
                                           !.start_stage = start_stage,
                                           !.overrides = overrides], "starting")
    /\ UNCHANGED exceptStream

\* line 100
MarkRunning ==
    /\ stream.pc = "started"
    /\ \E raises \in BOOLEAN :
        stream' = [stream EXCEPT !.pc = "dispatch", !.run_status =
            _update_run_status_safely(@, "running", raises)]
    /\ UNCHANGED exceptStream

\* lines 110-156: the stages run from requirements, or from the
\* implementer with the checkpoint events of the overrides; a missing
\* architecture_override and any other start_stage raise ValueError
Dispatch ==
    /\ stream.pc = "dispatch"
    /\ stream' =
        IF stream.start_stage = "requirements"
        THEN [stream EXCEPT !.pc = "stage", !.stage = 1]
        ELSE IF stream.start_stage = "implementer" /\ stream.overrides # "none"
        THEN LET f == IF stream.overrides = "both"
                      THEN yield(stream, "requirements_done") ELSE stream
             IN [yield(f, "architecture_done") EXCEPT !.pc = "stage", !.stage = 3]
        ELSE [stream EXCEPT !.pc = "raised"]
    /\ UNCHANGED exceptStream

\* a stage begins with its event
StageBegins ==
    /\ stream.pc = "stage"
    /\ stream' = [yield(stream, Stages[stream.stage].begins) EXCEPT !.pc = "working"]
    /\ UNCHANGED exceptStream

\* the statement after the last stage is the completed event
AfterStage(f) ==
    IF f.stage < Len(Stages)
    THEN [f EXCEPT !.pc = "stage", !.stage = @ + 1]
    ELSE [f EXCEPT !.pc = "finishing"]

\* a stage ends and yields its event; a guarded stage that raised yields
\* it from its except block
StageDone ==
    /\ stream.pc = "working"
    /\ stream' = AfterStage(yield(stream, Stages[stream.stage].done))
    /\ UNCHANGED exceptStream

\* an agent, an artifact record or the sandbox raises in a stage that has
\* no try block of its own: control goes to line 813
StageFails ==
    /\ stream.pc = "working"
    /\ ~Stages[stream.stage].guarded
    /\ stream' = [stream EXCEPT !.pc = "raised"]
    /\ UNCHANGED exceptStream

\* lines 806-810
EmitCompleted ==
    /\ stream.pc = "finishing"
    /\ stream' = [yield(stream, "completed") EXCEPT !.pc = "completed"]
    /\ UNCHANGED exceptStream

\* line 811
MarkCompleted ==
    /\ stream.pc = "completed"
    /\ \E raises \in BOOLEAN :
        stream' = [stream EXCEPT !.pc = "returned", !.run_status =
            _update_run_status_safely(@, "completed", raises)]
    /\ UNCHANGED exceptStream

\* lines 813-816: the session is rolled back, the error event is yielded
EmitError ==
    /\ stream.pc = "raised"
    /\ stream' = [yield(stream, "error") EXCEPT !.pc = "error"]
    /\ UNCHANGED exceptStream

\* line 817
MarkFailed ==
    /\ stream.pc = "error"
    /\ \E raises \in BOOLEAN :
        stream' = [stream EXCEPT !.pc = "returned", !.run_status =
            _update_run_status_safely(@, "failed", raises)]
    /\ UNCHANGED exceptStream

NextStream ==
    \/ EmitStarting
    \/ MarkRunning
    \/ Dispatch
    \/ StageBegins
    \/ StageDone
    \/ StageFails
    \/ EmitCompleted
    \/ MarkCompleted
    \/ EmitError
    \/ MarkFailed

SpecStream == Init /\ [][NextStream]_vars

\* ------------------------------------------------------------ properties
BackendPipeline(r) == run[r].kind \in {"generate", "refine"}
Steps(r) == run'[r] # run[r]
Returns(r) == run[r].pc # "done" /\ run'[r].pc = "done"

\* C1: when run_pipeline returns success, the persisted status at that
\* moment is awaiting_verification.
C1_ReturnsAwaitingVerification ==
    [][\A r \in Runs :
        (BackendPipeline(r) /\ Returns(r) /\ run'[r].result = "success")
            => project'[run[r].proj].status = AWAITING_VERIFICATION]_vars

\* C2: the status of a project changes to completed only through a passing
\* verification report received in awaiting_verification, and a failing
\* report received in awaiting_verification changes it to failed.
C2_CompletedOnlyByPassingReport ==
    [][\A p \in Projects :
        /\ (/\ Found(p)
            /\ project[p].status # COMPLETED
            /\ project'[p].status = COMPLETED)
              => /\ project[p].status = AWAITING_VERIFICATION
                 /\ SubmitVerificationReport(p, TRUE)
        /\ (/\ project[p].exists
            /\ project[p].status = AWAITING_VERIFICATION
            /\ SubmitVerificationReport(p, FALSE))
              => project'[p].status = FAILED]_vars

\* C3: when a stage of run_pipeline raises, the status becomes failed and
\* the artifacts persisted by the earlier stages stay on the record.
C3_RaiseLeavesFailed ==
    [][\A r \in Runs :
        (/\ BackendPipeline(r)
         /\ \/ run[r].pc # "raised" /\ run'[r].pc = "raised"
            \/ run[r].pc = "generating" /\ Returns(r))
            => /\ project'[run[r].proj].status = FAILED
               /\ project'[run[r].proj].spec_json = project[run[r].proj].spec_json
               /\ project'[run[r].proj].validation_json
                      = project[run[r].proj].validation_json]_vars

\* C4: whenever a run has set awaiting_verification, the archive of that
\* run is already in storage and zip_path is set.
C4_AwaitingOnlyAfterStore ==
    \A r \in Runs :
        (/\ BackendPipeline(r)
         /\ run[r].pc = "report"
         /\ project[run[r].proj].status = AWAITING_VERIFICATION)
            => /\ storage[run[r].proj] = r
               /\ project[run[r].proj].zip_path # NULL

\* C5: an auto-fix request is accepted only when the status is failed; in
\* every other status it is rejected and the status, the spec and the
\* archive of the project are left unchanged.
C5_AutoFixOnlyWhenFailed ==
    [][\A r \in Runs :
        (run[r].pc = "idle" /\ run'[r].kind = "fix")
            => LET p == run'[r].proj IN
               IF Found(p) /\ project[p].status = FAILED
               THEN /\ run'[r].pc = "fix_started"
                    /\ run'[r].result = "none"
               ELSE /\ run'[r].pc = "done"
                    /\ run'[r].result \in {"400", "404"}
                    /\ project' = project
                    /\ storage' = storage]_vars

C5_Witness ==
    \E r \in Runs :
        /\ run[r].kind = "fix"
        /\ run[r].result = "400"
        /\ Found(run[r].proj)
        /\ project[run[r].proj].status = COMPLETED
        /\ project[run[r].proj].zip_path # NULL

C7_StatusInFiveStates ==
    \A p \in Projects :
        project[p].exists =>
            project[p].status \in {PENDING, GENERATING, AWAITING_VERIFICATION,
                                   COMPLETED, FAILED}

\* C7 amended: the status is always one of pending, generating, verifying,
\* awaiting_verification, completed, failed.
C7_StatusInEnum ==
    \A p \in Projects : project[p].exists => project[p].status \in ProjectStatus

C7_Witness ==
    \E r \in Runs :
        /\ run[r].pc = "verifying"
        /\ project[run[r].proj].status = VERIFYING

\* C8: when the review reports an error, the run sets failed and returns;
\* it renders nothing, assembles nothing and leaves zip_path and the
\* stored archive as they were.
C8_ReviewErrorStopsPipeline ==
    [][\A r \in Runs :
        (/\ run[r].kind \in PipelineKinds
         /\ run[r].pc = "reviewed"
         /\ ~run[r].valid
         /\ Steps(r))
            => /\ run'[r].pc = "done"
               /\ run'[r].result = "failure"
               /\ project'[run[r].proj].status = FAILED
               /\ project'[run[r].proj].zip_path = project[run[r].proj].zip_path
               /\ storage' = storage]_vars

C8_Witness ==
    \E r \in Runs :
        /\ BackendPipeline(r)
        /\ run[r].pc = "done"
        /\ run[r].result = "failure"
        /\ project[run[r].proj].spec_json = r
        /\ project[run[r].proj].validation_json = "invalid"
        /\ project[run[r].proj].status = FAILED

\* the provider call made in this step, if any
Calls(g, h) == h.calls # g.calls
QuotaErrors == {"429 Too Many Requests", "RESOURCE_EXHAUSTED"}

C10_QuotaRaisedImmediately ==
    [][LET g == gen
           h == gen'
       IN /\ (g.pc = "call" /\ Calls(g, h) /\ h.last_call \in QuotaErrors)
                => /\ h.ended[CurrentModel(g)] = "quota"
                   /\ h.calls[CurrentModel(g)] = g.calls[CurrentModel(g)] + 1
                   /\ h.pc = "raised" \/ (h.pc = "call" /\ h.ci = g.ci + 1)
          /\ \A m \in DOMAIN MODELS :
                g.ended[m] = "quota" =>
                    /\ h.calls[m] = g.calls[m]
                    /\ h.ended[m] = "quota"]_vars

C10_Witness ==
    LET g == gen IN
    /\ g.ci = 2
    /\ g.ended[g.chain[1]] = "quota"
    /\ g.calls[g.chain[1]] = 2
    /\ g.calls[g.chain[2]] >= 1
    /\ g.pc = "returned"

\* C11: when the first call to the primary model fails with a quota error
\* and the first call to the secondary model returns a valid spec, each of
\* the two models has been called exactly once and model_used is the
\* secondary model; nothing is called after the agent has returned.
C11_QuotaThenValid ==
    [][LET g == gen
           h == gen'
       IN /\ (/\ g.pc = "call" /\ g.ci = 1 /\ g.calls[g.chain[1]] = 0
               /\ Calls(g, h) /\ h.last_call \in QuotaErrors
               /\ Len(g.chain) >= 2)
                => /\ h.pc = "call" /\ h.ci = 2
                   /\ h.calls[g.chain[1]] = 1
                   /\ h.calls[g.chain[2]] = 0
          /\ (/\ g.pc = "call" /\ g.ci = 2
               /\ g.ended[g.chain[1]] = "quota" /\ g.calls[g.chain[1]] = 1
               /\ g.calls[g.chain[2]] = 0
               /\ Calls(g, h) /\ h.last_call = "valid")
                => /\ h.pc = "returned"
                   /\ h.model_used = g.chain[2]
                   /\ h.calls[g.chain[1]] = 1
                   /\ h.calls[g.chain[2]] = 1
                   /\ \A m \in DOMAIN MODELS \ {g.chain[1], g.chain[2]} :
                          h.calls[m] = 0
          /\ g.pc = "returned"
                => /\ h.calls = g.calls
                   /\ h.model_used = g.model_used]_vars

C11_Witness ==
    LET g == gen IN
    /\ g.pc = "returned"
    /\ Len(g.chain) >= 2
    /\ g.ended[g.chain[1]] = "quota"
    /\ g.calls[g.chain[1]] = 1
    /\ g.calls[g.chain[2]] = 1
    /\ g.model_used = g.chain[2]
    /\ run[GenRun].pc = "spec"

\* C12: when every model of the chain ends with a quota error, the agent
\* raises ValueError after it has tried each model of the chain, one after
\* the other in chain order and each once, and the pipeline then records
\* the project as failed.
C12_AllQuotaFails ==
    [][LET g == gen
           h == gen'
       IN /\ (g.pc = "call" /\ h.pc = "call") => h.ci \in {g.ci, g.ci + 1}
          /\ \A m \in DOMAIN MODELS :
                g.ended[m] # "untried" => h.ended[m] = g.ended[m]
          /\ (/\ g.pc = "call" /\ Calls(g, h) /\ h.last_call \in QuotaErrors
               /\ \A i \in 1..Len(g.chain) : h.ended[g.chain[i]] = "quota")
                => /\ h.pc = "raised"
                   /\ g.ci = Len(g.chain)
                   /\ \A i \in 1..Len(g.chain) : h.calls[g.chain[i]] >= 1
          /\ (h.pc = "raised" /\ g.pc = "call")
                => \A i \in 1..Len(g.chain) : h.ended[g.chain[i]] # "untried"
          /\ (g.pc = "raised" /\ Steps(GenRun))
                => /\ run'[GenRun].pc = "done"
                   /\ run'[GenRun].result = "failure"
                   /\ project'[run[GenRun].proj].status = FAILED]_vars

C12_Witness ==
    LET g == gen IN
    /\ g.pc = "raised"
    /\ Len(g.chain) = 3
    /\ \A i \in 1..3 : g.ended[g.chain[i]] = "quota" /\ g.calls[g.chain[i]] = 1
    /\ run[GenRun].pc = "done"
    /\ run[GenRun].result = "failure"
    /\ project[run[GenRun].proj].status = FAILED

\* C14: on one model, an empty or invalid response is followed by a
\* re-prompt while fewer than 1 + max_retries responses were invalid; a
\* re-prompt quotes the error of the last invalid response and goes to the
\* session of the calls before it; the last invalid response ends the
\* attempt on that model, which is not called again.
C14_RepromptBounded ==
    [][LET g == gen
           h == gen'
       IN /\ g.attempt <= max_retries
          /\ (g.pc = "call" /\ Calls(g, h) /\ h.last_call \in InvalidResponses)
                => IF g.attempt < max_retries
                   THEN /\ h.pc = "call" /\ h.ci = g.ci
                        /\ h.attempt = g.attempt + 1
                        /\ h.last_error = h.last_call
                   ELSE /\ h.ended[CurrentModel(g)] = "invalid"
                        /\ h.pc = "raised" \/ (h.pc = "call" /\ h.ci = g.ci + 1)
          /\ (g.pc = "call" /\ Calls(g, h))
                => IF g.attempt = 0
                   THEN h.message = "USER REQUEST"
                   ELSE /\ h.message = g.last_error
                        /\ g.last_error \in InvalidResponses
                        /\ h.session = g.session
          /\ \A m \in DOMAIN MODELS :
                g.ended[m] = "invalid" => h.calls[m] = g.calls[m]]_vars

C14_Witness ==
    LET g == gen IN
    /\ g.ci = 1
    /\ g.pc = "raised"
    /\ g.ended[g.chain[1]] = "invalid"
    /\ g.calls[g.chain[1]] = 1 + max_retries
    /\ g.message = "invalid"
    /\ g.last_call = "empty"

\* C15: a prompt gets at most three API attempts; a failure of attempt
\* api_attempt (0, 1, 2) that is not a quota error is followed by a sleep of
\* 2 ^ api_attempt seconds and then by the next attempt, or after the third
\* by the failure of the call; an attempt that gets a response is the last
\* one for that prompt.
C15_ApiAttemptsBounded ==
    [][LET g == gen
           h == gen'
       IN /\ g.pc = "call" => g.api_attempt < 3
          /\ (/\ g.pc = "call" /\ Calls(g, h)
               /\ h.last_call \in ProviderErrors \ QuotaErrors)
                => /\ h.slept = 2 ^ g.api_attempt
                   /\ IF g.api_attempt < 2
                      THEN /\ h.pc = "call" /\ h.ci = g.ci
                           /\ h.attempt = g.attempt
                           /\ h.api_attempt = g.api_attempt + 1
                      ELSE /\ h.ended[CurrentModel(g)] = "api_failed"
                           /\ h.pc = "raised"
                                \/ (h.pc = "call" /\ h.ci = g.ci + 1)
          /\ (/\ g.pc = "call" /\ Calls(g, h)
               /\ h.last_call \in InvalidResponses \cup {"valid"})
                => \/ h.pc \in {"returned", "raised"}
                   \/ /\ h.pc = "call" /\ h.api_attempt = 0
                      /\ h.ci = g.ci + 1 \/ h.attempt = g.attempt + 1]_vars

C15_Witness ==
    LET g == gen IN
    /\ g.pc = "raised"
    /\ g.ci = 1
    /\ g.ended[g.chain[1]] = "api_failed"
    /\ g.calls[g.chain[1]] = 3
    /\ g.slept = 4

NoDuplicates(chain) ==
    \A i, j \in 1..Len(chain) : chain[i] = chain[j] => i = j

\* C13: for every start model id and every registry, cyclic ones included,
\* get_fallback_chain returns, and the chain it builds never holds a model
\* id twice and is never longer than the registry; what it returns is the
\* chain the agent walks.
C13_ChainFiniteNoRepeats ==
    /\ [](/\ NoDuplicates(walk.chain)
          /\ Len(walk.chain) <= Cardinality(DOMAIN walk.registry)
          /\ walk.pc = "returned" =>
                walk.chain = fallback_walk(walk.registry, walk.model_id, {}, <<>>))
    /\ <>(walk.pc = "returned")

\* a registry whose links form a cycle through all its models
C13_Witness ==
    /\ walk.pc = "returned"
    /\ Len(walk.chain) = Cardinality(DOMAIN walk.registry)
    /\ walk.registry[walk.chain[Len(walk.chain)]] = walk.chain[1]
    /\ walk.current = walk.model_id

\* C16: the sandbox loop deploys at most three times, one attempt after
\* the other; an attempt whose report is deployed, healthy and without a
\* failed test ends the loop as passed, any other report ends it only at
\* the third attempt, and nothing is deployed after the loop has ended.
C16_AtMostThreeDeploys ==
    [][LET f == pipeline
           h == pipeline'
           ok == /\ h.report.deployed /\ h.report.health_check_ok
                 /\ h.report.tests_failed = 0
       IN /\ h.deploys <= 3
          /\ h.deploys # f.deploys
                => /\ h.deploys = f.deploys + 1
                   /\ f.pc = "sandbox" /\ f.sandbox_done = "none"
                   /\ h.report.made
                   /\ IF ok
                      THEN h.pc = "sandbox_done" /\ h.sandbox_done = "passed"
                      ELSE IF h.deploys = 3
                      THEN h.pc = "sandbox_done" /\ h.sandbox_done = "failed"
                      ELSE h.pc = "patching" /\ h.sandbox_done = "none"
          /\ f.sandbox_done # "none" => h.deploys = f.deploys]_vars

C16_Witness ==
    /\ pipeline.pc = "sandbox_done"
    /\ pipeline.sandbox_done = "passed"
    /\ pipeline.deploys = 2
    /\ pipeline.repair = "changed"
    /\ pipeline.report.tests_failed = 0
    /\ pipeline.report.failures # {}

\* C17: after a repair step that changed nothing, the sandbox loop does
\* not deploy again.
C17_NoRedeployAfterNoChange ==
    [][pipeline.repair = "unchanged"
            => pipeline'.deploys = pipeline.deploys]_vars

\* C18: a run gets at most five reviews, and a review ends its loop as
\* accepted exactly when it approves with a score of at least 7.
C18_AtMostFiveReviewPasses ==
    [][LET f == pipeline
           h == pipeline'
       IN /\ h.passes <= 5
          /\ h.passes # f.passes
                => ((h.pc = "review_done" /\ h.review_end = "accepted")
                        <=> (h.approved /\ OrZero(h.score) >= 7))]_vars

\* C19: every review of a run after its first reports a score that is at
\* least the score reported by the review before it.
C19_ScoreNeverDecreases ==
    [][LET f == pipeline
           h == pipeline'
       IN (h.passes # f.passes /\ f.score # {})
            => OrZero(h.score) >= OrZero(f.score)]_vars

\* the patch requests that target a file
Targeting(requests, file) == {i \in 1..Len(requests) : requests[i].path = file}
FrameFiles(report) ==
    {report.test_output.frames[i] : i \in 1..Len(report.test_output.frames)}

WithReason(requests, reason) ==
    {i \in 1..Len(requests) : requests[i].reason = <<reason>>}

\* C21: a failed sandbox attempt that is followed by a repair step has at
\* least one patch request; the catch-all request against app/main.py is
\* there exactly when the output has no traceback frame, the health check
\* passed and no failure line names an application file, and it is then
\* the only request.
C21_CatchAllIffNoRule ==
    pipeline.pc = "patching" =>
        LET report == pipeline.report
            requests == pipeline.patch_requests
            catch_all == WithReason(requests, "Sandbox deployment failed")
            no_rule ==
                /\ report.test_output.frames = <<>>
                /\ report.health_check_ok
                /\ \A line \in report.failures : line.test
        IN /\ Len(requests) >= 1
           /\ (catch_all # {}) <=> no_rule
           /\ catch_all # {} =>
                /\ Len(requests) = 1
                /\ requests[1].path = "app/main.py"

C21_Witness ==
    /\ pipeline.pc = "patching"
    /\ pipeline.report.health_check_ok
    /\ pipeline.report.tests_failed = 1
    /\ pipeline.report.failures = {[test |-> TRUE, file |-> "app/models.py"]}
    /\ pipeline.report.test_output.frames = <<>>
    /\ Len(pipeline.patch_requests) = 1
    /\ pipeline.patch_requests[1].reason = <<"Sandbox deployment failed">>

\* verify_generated_backend has left, by a return or by an exception
VerifyLeft == verify.pc \in {"returned", "raised"}

\* C22: when a verification that created its scratch directory is left,
\* bringing the container group down was attempted, and the scratch
\* directory was deleted or its deletion was attempted and logged.
C22_TeardownOnEveryExit ==
    (VerifyLeft /\ verify.tmpdir # "None") =>
        /\ verify.down # "not_attempted"
        /\ \/ verify.tmpdir = "removed"
           \/ "Temp cleanup failed" \in verify.log

\* the result of the verification itself: the value of the return
\* statement the try block reached, or the aggregate of its checks
PrimaryResult ==
    IF verify.pending # NoResult THEN verify.pending
    ELSE aggregate(verify.results, verify.errors)

\* C23: when a cleanup operation failed, the failure is logged and the
\* caller still gets the result of the verification itself.
C23_CleanupNeverMasksResult ==
    (VerifyLeft /\ verify.cleanup_failed # {}) =>
        /\ verify.result = PrimaryResult
        /\ "teardown" \in verify.cleanup_failed
                => "Docker cleanup failed" \in verify.log
        /\ "rmtree" \in verify.cleanup_failed
                => "Temp cleanup failed" \in verify.log
        /\ "override" \in verify.cleanup_failed => verify.log # {}

\* C24: a call whose path names a Project, Thread or Document row owned
\* by a user other than the caller is answered 404, its body holds no
\* data of another user and it changes no row of another user.
C24_CrossUserNotFound ==
    LET r == api.response
    IN r.owners \ {r.caller} # {} =>
        /\ r.status = 404
        /\ r.data \subseteq {r.caller}
        /\ r.changed \subseteq {r.caller}

\* the message of the turn holds the word w, or the word a followed by b
Has(w) == \E i \in 1..Len(chat.message) : chat.message[i] = w
HasPair(a, b) ==
    \E i \in 1..(Len(chat.message) - 1) :
        chat.message[i] = a /\ chat.message[i + 1] = b

C26_RetrieveChangesNothing ==
    [][chat'.intent = RETRIEVE =>
        /\ chat'.row = chat.row
        /\ chat'.new_rows = chat.new_rows
        /\ ~chat'.run_pipeline.called
        /\ chat'.pc = "done" =>
            /\ chat'.response.status_code = 200
            /\ chat'.response.download_url = "project"
            /\ chat'.row.zip_path = "old"]_vars

C26_Witness ==
    /\ chat.pc = "done"
    /\ chat.intent = RETRIEVE
    /\ chat.message = <<"download", "it">>
    /\ chat.response.download_url = "project"

\* C27: a REFINE run of the pipeline resumes the Project it is given: no
\* row is added, the prompt is overwritten with the new prompt and the
\* status is PENDING before the generation starts; when the run returns
\* success the status is awaiting_verification.
C27_RefineResumesSameProject ==
    [][\A r \in Runs :
        LET p == run'[r].proj IN
        /\ (run[r].pc = "idle" /\ run'[r].pc # "idle" /\ run'[r].kind = "refine")
            => /\ \A q \in Projects : project'[q].exists = project[q].exists
               /\ project[p].exists
               /\ project'[p].prompt = r
               /\ project'[p].status = PENDING
        /\ (run[r].kind = "refine" /\ Returns(r) /\ run'[r].result = "success")
            => project'[run[r].proj].status = AWAITING_VERIFICATION]_vars

\* a run is alone on its project when no other started run names the row
AloneOnProject(r) ==
    \A q \in Runs \ {r} : run[q].pc = "idle" \/ run[q].proj # run[r].proj

\* C30: within a pipeline each stage's artifact is committed before the
\* next stage starts. When the spec review of a run begins (the run leaves
\* "spec"), the row already holds a committed spec_json, the run's own
\* spec when no other run works on the row; when code rendering begins or
\* the review failure is returned (the run leaves "reviewed"), the row
\* already holds a committed validation_json, the run's own verdict when
\* no other run works on the row
C30_ArtifactCommittedBeforeNextStage ==
    [][\A r \in Runs :
        LET row == project[run[r].proj] IN
        /\ (run[r].pc = "spec" /\ run'[r].pc # "spec")
            => /\ row.spec_json # NULL
               /\ AloneOnProject(r) => row.spec_json = r
        /\ (run[r].pc = "reviewed" /\ run'[r].pc # "reviewed")
            => /\ row.validation_json # "null"
               /\ row.spec_json # NULL
               /\ AloneOnProject(r) =>
                    row.validation_json =
                        (IF run[r].valid THEN "valid" ELSE "invalid")]_vars

\* a review failure has been returned and the row holds both artifacts
C30_Witness ==
    \E r \in Runs :
        /\ run[r].pc = "done"
        /\ run[r].result = "failure"
        /\ project[run[r].proj].status = FAILED
        /\ project[run[r].proj].spec_json = r
        /\ project[run[r].proj].validation_json = "invalid"

\* a pipeline is running from the request that starts it until its handler
\* is left
RunningPipeline(r) ==
    /\ run[r].pc \notin {"idle", "done", "raised"}
    /\ run[r].kind \in PipelineKinds \cup {"fix"}

\* C31: at any time at most one running pipeline (generation, refine or
\* auto-fix) works on a given Project row
C31_OnePipelinePerProject ==
    \A r, q \in Runs :
        (r # q /\ RunningPipeline(r) /\ RunningPipeline(q))
            => run[r].proj # run[q].proj

\* C32: concurrent verifications never contend for a host port: no
\* verification asks the daemon for a host port that the containers of
\* another verification publish
C32_NoPortContention ==
    \A v \in Verifiers :
        verifications[v].pc = "override" => ~HostPortTaken(v)

\* C33: a pipeline cancelled at a suspension point leaves its Project in
\* status failed, with the artifacts persisted so far still on the row
C33_CancelledMeansFailed ==
    [][\A r \in Runs :
        (run[r].pc # "raised" /\ run'[r].pc = "raised"
            /\ run'[r].result = "cancelled")
        => LET before == project[run[r].proj]
               after == project'[run[r].proj]
           IN /\ after.status = FAILED
              /\ after.spec_json = before.spec_json
              /\ after.validation_json = before.validation_json]_vars

\* C34: every pipeline failure leaves its error details on the Project
\* row, where get_project reads them back. The only columns of the row
\* that can carry errors are validation_json and verification_json
C34_FailureLeavesErrorDetails ==
    [][\A r \in Runs :
        (run[r].kind \in PipelineKinds /\ Returns(r)
            /\ run'[r].result = "failure")
        => \/ project'[run[r].proj].validation_json = "invalid"
           \/ project'[run[r].proj].verification_json = "failed"]_vars

\* the live rows a user owns with the digest of a text
OwnedWithHash(user_id, text) ==
    {d \in 1..Len(rag.documents) :
        /\ rag.documents[d].live
        /\ rag.documents[d].user_id = user_id
        /\ rag.documents[d].content_hash = content_hash(text)}

\* C35: ingestion is idempotent per (user_id, content_hash): when the user
\* already owns a Document with the hash of the ingested text,
\* store_document returns such a Document and creates no Document and no
\* Chunk, neither in that step nor before the call is left
C35_IngestIdempotent ==
    [][\A f \in UploadFrames :
        /\ (rag.call[f].pc = "idle" /\ rag'.call[f].pc # "idle")
            => LET owned == OwnedWithHash(rag'.call[f].user_id,
                                          rag'.call[f].text)
               IN owned # {}
                    => /\ rag'.call[f].pc = "returned"
                       /\ rag'.call[f].returned \in owned
                       /\ Cardinality(owned) = 1
                            => owned = {rag'.call[f].returned}
                       /\ rag'.documents = rag.documents
                       /\ rag'.chunks = rag.chunks
        /\ (rag.call[f].pc = "returned" /\ rag.call[f] # rag'.call[f])
            => /\ rag'.call[f] = IdleUpload
               /\ rag'.documents = rag.documents
               /\ rag'.chunks = rag.chunks]_vars

\* a second ingestion of the same text by the same user has returned the
\* Document of the first, and the table still has that one row
C35_Witness ==
    \E f \in UploadFrames :
        /\ rag.call[f].pc = "returned"
        /\ Len(rag.documents) = 1
        /\ rag.call[f].existing = 1
        /\ rag.call[f].returned = 1
        /\ \A g \in UploadFrames \ {f} : rag.call[g].pc = "idle"
        /\ rag.documents[1].user_id = rag.call[f].user_id
        /\ rag.documents[1].content_hash = content_hash(rag.call[f].text)
        /\ rag.chunks = <<chunk_text(rag.call[f].text)>>

\* C36: every auto-fix request that was accepted ends with the persisted
\* status of its Project out of generating: failed when the fix did not
\* succeed, awaiting_verification (the status of the response) when it did
C36_AutoFixLeavesGenerating ==
    [][\A r \in Runs :
        (run[r].kind = "fix" /\ run[r].pc # "idle" /\ Returns(r))
        => LET status == project'[run[r].proj].status IN
           /\ status # GENERATING
           /\ run'[r].result = "failure" => status = FAILED
           /\ run'[r].result = "success"
                => status = AWAITING_VERIFICATION]_vars

\* a step of a review loop that assigns code again: the reviewer's
\* final_code is taken over (the loop goes to its next attempt straight
\* from the review, or is exhausted by it), or patch_files has returned
CodeRewritten ==
    \/ /\ pipeline.pc = "review"
       /\ \/ pipeline'.pc = "review"
          \/ pipeline'.pc = "review_done" /\ pipeline'.review_end = "exhausted"
    \/ /\ pipeline.pc = "review_patch"
       /\ \/ pipeline'.pc = "review"
          \/ pipeline'.pc = "review_done" /\ pipeline'.review_end = "exhausted"

\* C37: the sandbox tests the final code: once a sandbox attempt has
\* deployed the code, no step before the completed event assigns code
\* again without a later deploy, so the files of the completed artifact
\* are those of the last deploy
C37_NoRewriteAfterLastDeploy ==
    [][(pipeline.deploys >= 1 /\ pipeline.loop = 2) => ~CodeRewritten]_vars

TerminalEvents == {"completed", "error"}
TerminalPositions ==
    {i \in 1..Len(stream.events) : stream.events[i] \in TerminalEvents}

\* the events of a finished execution are in order: starting first, one
\* terminal event, and that one last
EventsInOrder ==
    stream.pc = "returned"
        => /\ stream.events[1] = "starting"
           /\ TerminalPositions = {Len(stream.events)}

\* C38: every execution of the streaming pipeline emits starting first and
\* exactly one terminal event last, and its run status is completed
\* exactly when that event is completed and failed exactly when it is
\* error
C38_TerminalEventMatchesRunStatus ==
    stream.pc = "returned"
        => LET last == stream.events[Len(stream.events)] IN
           /\ EventsInOrder
           /\ stream.run_status = "completed" <=> last = "completed"
           /\ stream.run_status = "failed" <=> last = "error"

\* C39: after a chat turn classified GENERATE has succeeded, the
\* project_id and the download_url of the response identify the Project
\* the pipeline of that turn worked on and stored the archive for. The
\* response names the Project of the thread, so the pipeline must have
\* been given that Project and have stored its archive on that row
C39_GenerateResponseNamesPipelineProject ==
    (chat.pc = "done" /\ chat.intent = GENERATE
        /\ chat.response.status_code = 200)
    => /\ chat.response.project_id = chat.run_pipeline.project_id
       /\ chat.response.download_url = chat.run_pipeline.project_id
       /\ chat.row.zip_path = "new"

\* the primary-key fields of entity i of the reviewed document
KeysOf(i) ==
    {k \in 1..Len(spec_review.spec.entities[i].fields) :
        spec_review.spec.entities[i].fields[k].primary_key}
EntityIndexes == 1..Len(spec_review.spec.entities)

\* C28: when the review of a structurally valid spec reports valid, every
\* entity has exactly one primary-key field and that field is not nullable.
C28_ValidHasNonNullKey ==
    (spec_review.pc = "reviewed" /\ spec_review.validation.valid) =>
        \A i \in EntityIndexes :
            /\ Cardinality(KeysOf(i)) = 1
            /\ \A k \in KeysOf(i) : ~spec_review.spec.entities[i].fields[k].nullable

C28_Witness ==
    /\ spec_review.pc = "reviewed"
    /\ spec_review.validation.valid
    /\ Len(spec_review.spec.entities) = 2
    /\ Len(spec_review.spec.entities[1].fields) = 2
    /\ spec_review.spec.entities[1].fields[2].nullable

\* C29: the review reports valid = false exactly when some entity has a
\* duplicate field name, or some primary-key field is nullable, or auth
\* is enabled and some entity's table is user_accounts; a reserved field
\* name other than id and a generic project name give a warning each and
\* never an error.
C29_InvalidIffError ==
    spec_review.pc = "reviewed" =>
        LET entities == spec_review.spec.entities
            duplicate ==
                \E i \in EntityIndexes :
                    \E j, k \in 1..Len(entities[i].fields) :
                        j # k /\ entities[i].fields[j].name
                                    = entities[i].fields[k].name
            nullable_key ==
                \E i \in EntityIndexes :
                    \E k \in KeysOf(i) : entities[i].fields[k].nullable
            auth_table ==
                /\ spec_review.spec.auth_enabled
                /\ \E i \in EntityIndexes :
                        entities[i].table_name = "user_accounts"
            reserved ==
                \E i \in EntityIndexes :
                    \E k \in 1..Len(entities[i].fields) :
                        entities[i].fields[k].name = "type"
            generic == spec_review.spec.project_name = "app"
            warned(text) ==
                \E w \in 1..Len(spec_review.validation.warnings) :
                    spec_review.validation.warnings[w] = text
        IN /\ ~spec_review.validation.valid
                <=> (duplicate \/ nullable_key \/ auth_table)
           /\ reserved <=> warned("reserved word")
           /\ generic <=> warned("generic project name")
           /\ \A e \in 1..Len(spec_review.validation.errors) :
                spec_review.validation.errors[e]
                    \notin {"reserved word", "generic project name"}

C29_Witness ==
    /\ spec_review.pc = "reviewed"
    /\ spec_review.validation.valid
    /\ spec_review.spec.project_name = "app"
    /\ ~spec_review.spec.auth_enabled
    /\ spec_review.spec.entities[1].table_name = "user_accounts"
    /\ spec_review.spec.entities[1].fields[1].name = "type"
    /\ Len(spec_review.validation.warnings) = 2

====
